---- MODULE Spec2Model ----
(***************************************************************************)
(* State-machine model of the lab framework's node controller              *)
(* (pythonCommon/ExperimentManager.py) together with the hardware hooks of *)
(* its concrete subclass MockNodeManager                                   *)
(* (test/pythonCommon/test_experiment_manager.py).                         *)
(*                                                                         *)
(* One ExperimentManager instance is modelled as the record mgr, whose     *)
(* fields carry the attribute names of the Python object.  A top-level     *)
(* call (the constructor, handle_command, a direct transition request) is  *)
(* one atomic action: the object is a single-threaded actor and every      *)
(* nested transition runs inside the call that triggered it.               *)
(*                                                                         *)
(* Python exceptions are modelled by the field exc of the record: a        *)
(* function that raises returns the record with exc set, and every caller  *)
(* skips the rest of its body until an except clause that matches clears   *)
(* it.  The fields trace and runs observe the last top-level call: the     *)
(* records it published, the hooks it invoked, what it raised, the state   *)
(* changes it made and the experiment index of each run it started.        *)
(* "RuntimeError" stands for RuntimeError and its subclasses,              *)
(* "Exception" for every other subclass of Exception (ValueError,          *)
(* AttributeError, ...).  At rest, exc tells whether the last top-level    *)
(* call ended by propagating an exception to its caller.                   *)
(*                                                                         *)
(* Environment: the transport (self.comm) is connected, as the constructor *)
(* requires, so comm_publish accepts every record.  Timestamps carried by  *)
(* published records are left out.  Heights and bias values are exact      *)
(* rationals; heights are counted in tenths (1 stands for 0.1).            *)
(***************************************************************************)
EXTENDS Integers, Sequences, FiniteSets, TLC

VARIABLES mgr, hw, nsteps, last, prev, cal, comm, mqtt, ctl

vars == <<mgr, hw, nsteps, last, prev, cal, comm, mqtt, ctl>>

\* the variables of the node controller
fsmVars == <<mgr, hw, nsteps, last, prev, cal>>

(***************************************************************************)
(* Bounds of the model.                                                    *)
(***************************************************************************)
\* number of events (top-level calls, hardware faults) one instance sees
\* after its construction
MaxSteps == 3
\* longest list of sub-experiments a Run command carries
MaxExps == 2
\* number of connect(), disconnect() calls a transport session sees
MaxCalls == 2
\* number of times the broker drops a connection
MaxDrops == 1
\* number of messages a transport session receives and publishes
MaxMsgs == 2
\* the clock of a liveness monitor stops at this time
MaxTime == 5
\* number of enable_heartbeat_monitor() calls a manager sees
MaxEnables == 2
\* number of failing connection attempts the broker answers in a row
MaxFailures == 2
\* the clock of a controller stops at this time
MaxClock == 6
\* number of messages (discovery, command response) a controller handles
MaxEvents == 2
\* number of commands a controller sends
MaxCommands == 2
\* number of command responses handled while run_experiment is running
MaxReplies == 4

(***************************************************************************)
(* class State(IntEnum)                                                    *)
(***************************************************************************)
State == {"BOOT", "IDLE", "CALIBRATING", "TESTINGSENSOR", "CONFIGUREVALIDATE",
          "CONFIGUREPENDING", "TESTINGACTUATOR", "RUNNING", "POSTPROC",
          "DONE", "ERROR"}

VALID_COMMANDS == {"Calibrate", "Test", "Run", "TestValid", "RunValid",
                   "Reset", "Abort"}

\* Python's None
None == [none |-> TRUE]

\* Python's empty dict / empty list
EmptyDict == <<>>

(***************************************************************************)
(* Exact rationals [n, d] with d > 0, kept in lowest terms.                *)
(***************************************************************************)
Abs(x) == IF x < 0 THEN -x ELSE x

RECURSIVE Gcd(_, _)
Gcd(a, b) == IF b = 0 THEN a ELSE Gcd(b, a % b)

Rat(n, d) == LET g == Gcd(Abs(n), d) IN [n |-> n \div g, d |-> d \div g]

RatAdd(x, y) == Rat(x.n * y.d + y.n * x.d, x.d * y.d)

RECURSIVE SeqSum(_)
SeqSum(s) == IF s = <<>> THEN 0 ELSE Head(s) + SeqSum(Tail(s))

\* sum(height_log) / len(height_log)
Mean(s) == Rat(SeqSum(s), Len(s))

(***************************************************************************)
(* Records published and logged.                                           *)
(***************************************************************************)
\* self.comm.comm_publish(self.comm.get_full_topic(suffix), json.dumps(rec))
Publish(m, suffix, what) ==
    [m EXCEPT !.trace = Append(@, <<"publish", suffix, what>>)]

\* ExperimentManager.log: publish on the log topic, then append to fsm_log
Log(m, level, msg) ==
    LET rec == [level |-> level, msg |-> msg]
        m1 == Publish(m, "log", level)
    IN [m1 EXCEPT !.fsm_log = Append(@, rec)]

\* a raise statement; the trace keeps what was raised during the call
Raise(m, kind) ==
    [m EXCEPT !.exc = kind, !.trace = Append(@, <<"raise", kind>>)]

\* an invoked hardware hook, as seen from outside
Hook(m, name) == [m EXCEPT !.trace = Append(@, <<"hook", name>>)]

(***************************************************************************)
(* dict access helpers                                                     *)
(***************************************************************************)
\* key in d
Has(d, key) == key \in DOMAIN d

\* spec.get("params", {})
Params(d) == IF Has(d, "params") THEN d.params ELSE EmptyDict

\* "experiments" in params and params["experiments"]
IsMulti(d) ==
    /\ Has(Params(d), "experiments")
    /\ Params(d).experiments # EmptyDict

(***************************************************************************)
(* Hardware hooks (MockNodeManager) and their failure modes.               *)
(* hw.stop : how stop_hardware ends ("ok", or the exception it raises)     *)
(* hw.run  : "sync" the run hook reports completion by requesting POSTPROC *)
(*           before it returns (MockNodeManager.handle_run);               *)
(*           "async" it starts the run and returns                         *)
(* hw.data : whether the run hook buffers a record in experiment_data      *)
(*           (MockNodeManager.handle_run buffers none)                     *)
(* hw.rest : how rest.send_data ends: "ok", "error" it returns a result    *)
(*           whose status is error, "raise" it raises                      *)
(***************************************************************************)
StopModes == {"ok", "RuntimeError", "Exception"}
RunModes == {"sync", "async"}
RestModes == {"ok", "error", "raise"}

StopHardware(m) ==
    LET m1 == Hook(m, "stop_hardware")
    IN IF hw.stop = "ok" THEN m1 ELSE Raise(m1, hw.stop)

ConfigureHardware(params) ==
    LET has_amp == Has(params, "amplitude") /\ params.amplitude > 0
        has_wave == Has(params, "waveType")
    IN has_amp /\ has_wave

(***************************************************************************)
(* The state machine core                                                  *)
(***************************************************************************)
\* the table with RUNNING slipped into the row of IDLE
valid_transitions_mut ==
    [s \in State |->
        CASE s = "BOOT" -> {"IDLE"}
          [] s = "IDLE" -> {"CALIBRATING", "TESTINGSENSOR", "CONFIGUREVALIDATE",
                            "RUNNING"}
          [] s = "CALIBRATING" -> {"CALIBRATING"}
          [] s = "TESTINGSENSOR" -> {"IDLE"}
          [] s = "CONFIGUREVALIDATE" -> {"CONFIGUREPENDING", "IDLE"}
          [] s = "CONFIGUREPENDING" -> {"TESTINGACTUATOR", "RUNNING"}
          [] s = "TESTINGACTUATOR" -> {"IDLE"}
          [] s = "RUNNING" -> {"POSTPROC"}
          [] s = "POSTPROC" -> {"DONE", "RUNNING"}
          [] s = "DONE" -> {"IDLE"}
          [] s = "ERROR" -> {"IDLE"}]

valid_transitions ==
    [s \in State |->
        CASE s = "BOOT" -> {"IDLE"}
          [] s = "IDLE" -> {"CALIBRATING", "TESTINGSENSOR", "CONFIGUREVALIDATE"}
          [] s = "CALIBRATING" -> {"CALIBRATING"}
          [] s = "TESTINGSENSOR" -> {"IDLE"}
          [] s = "CONFIGUREVALIDATE" -> {"CONFIGUREPENDING", "IDLE"}
          [] s = "CONFIGUREPENDING" -> {"TESTINGACTUATOR", "RUNNING"}
          [] s = "TESTINGACTUATOR" -> {"IDLE"}
          [] s = "RUNNING" -> {"POSTPROC"}
          [] s = "POSTPROC" -> {"DONE", "RUNNING"}
          [] s = "DONE" -> {"IDLE"}
          [] s = "ERROR" -> {"IDLE"}]

\* the always-allowed targets extended by a state that is not one of them
IsValidTransition_mut(from_state, to_state) ==
    to_state \in (valid_transitions[from_state]
                    \cup {"IDLE", "ERROR", "CALIBRATING"})

\* IDLE no longer allowed from every state
IsValidTransition_noidle(from_state, to_state) ==
    to_state \in (valid_transitions[from_state] \cup {"ERROR"})

\* _is_valid_transition taking ERROR for IDLE
IsValidTransition_fromerror(from_state, to_state) ==
    to_state \in (valid_transitions[IF from_state = "ERROR" THEN "IDLE"
                                    ELSE from_state] \cup {"IDLE", "ERROR"})

IsValidTransition(from_state, to_state) ==
    to_state \in (valid_transitions[from_state] \cup {"IDLE", "ERROR"})

ExitState(m, state) ==
    CASE state = "RUNNING" -> StopHardware(m)
      [] state = "CALIBRATING" -> m
      [] state = "TESTINGSENSOR" -> StopHardware(m)
      [] OTHER -> m

RECURSIVE Transition(_, _)

\* a call of transition that follows other statements: skipped when one of
\* them raised
ThenTransition(m, new_state) ==
    IF m.exc # "none" THEN m ELSE Transition(m, new_state)

\* what an except clause names: RuntimeError only, or Exception
RuntimeErrors == {"RuntimeError"}
Exceptions == {"RuntimeError", "Exception"}

\* an except clause that logs the failure and calls transition(target)
Except(m, kinds, msg, target) ==
    IF m.exc \in kinds
    THEN Transition(Log([m EXCEPT !.exc = "none"], "ERROR", msg), target)
    ELSE m

\* self.height_log = [], the statement after transition(State.IDLE)
ClearHeightLog(m) ==
    IF m.exc # "none" THEN m ELSE [m EXCEPT !.height_log = <<>>]

\* MockNodeManager.handle_calibrate
HandleCalibrate(m, cmd) ==
    LET m0 == Hook(m, "handle_calibrate")
        p == Params(cmd)
    IN IF Has(p, "finished") /\ p.finished = TRUE
       THEN IF m0.height_log = <<>>
            THEN ClearHeightLog(Transition(m0, "IDLE"))
            ELSE LET avg_height == Mean(m0.height_log)
                     m1 == [m0 EXCEPT
                              !.bias_table = [k \in DOMAIN @ |->
                                                 RatAdd(@[k], avg_height)],
                              !.height_log = <<>>]
                 IN Transition(m1, "IDLE")
       ELSE IF Has(p, "height")
            THEN [m0 EXCEPT !.height_log = Append(@, p.height)]
            ELSE Raise(m0, "Exception")

\* MockNodeManager.handle_test
HandleTest(m, cmd) == Hook(m, "handle_test")

\* MockNodeManager.handle_run, or a hook that returns while the run goes on
HandleRun(m, cmd) ==
    LET m0 == Hook(m, "handle_run")
        m1 == IF hw.data
              THEN [m0 EXCEPT !.experiment_data = Append(@, [sample |-> 1])]
              ELSE m0
    IN IF hw.run = "sync" THEN Transition(m1, "POSTPROC") ELSE m1

EnterIdle(m) == StopHardware(m)

\* CALIBRATING entered without the capability check
EnterCalibrating_mut(m) == HandleCalibrate(m, m.cmd)

EnterCalibrating(m) ==
    IF ~m.has_sensor THEN Raise(m, "RuntimeError")
    ELSE HandleCalibrate(m, m.cmd)

EnterTestingSensor(m) ==
    IF ~m.has_sensor THEN Raise(m, "RuntimeError")
    ELSE HandleTest(m, m.cmd)

EnterTestingActuator(m) ==
    IF ~m.has_actuator THEN Raise(m, "RuntimeError")
    ELSE HandleTest(m, m.cmd)

\* experiments[self.current_experiment_index] raises IndexError outside
\* the list (list indices count from 0 in the source, from 1 here)
IndexInList(m) ==
    m.current_experiment_index
       < Len(Params(m.experiment_spec).experiments)

\* ExperimentManager.setup_current_experiment: two INFO records
SetupCurrentExperiment(m) ==
    IF m.experiment_spec = None THEN Raise(m, "Exception")
    ELSE IF IsMulti(m.experiment_spec) /\ ~IndexInList(m)
    THEN Raise(m, "Exception")
    ELSE Log(Log(m, "INFO", "Setting up experiment"),
             "INFO", "Experiment parameters")

\* the first index i >= from of an experiment configure_hardware rejects,
\* or 0 when it accepts them all (indices count from 1)
\* a validation that looks at the first experiment of the list only
FirstInvalid_mut(experiments, from) ==
    IF ~ConfigureHardware(experiments[1]) THEN 1 ELSE 0

RECURSIVE FirstInvalid(_, _)
FirstInvalid(experiments, from) ==
    IF from > Len(experiments) THEN 0
    ELSE IF ~ConfigureHardware(experiments[from]) THEN from
    ELSE FirstInvalid(experiments, from + 1)

\* the calls of configure_hardware made by the validation loop
RECURSIVE ConfigureCalls(_, _, _)
ConfigureCalls(m, i, upto) ==
    IF i > upto THEN m
    ELSE ConfigureCalls(Hook(m, "configure_hardware"), i + 1, upto)

\* the shared tail of both branches: stage index 0, set up, go to pending
StageFirst(m) ==
    Except(ThenTransition(SetupCurrentExperiment(
                             [m EXCEPT !.current_experiment_index = 0]),
                          "CONFIGUREPENDING"),
           Exceptions, "experiment setup failed", "IDLE")

EnterConfigureValidate(m) ==
    IF m.experiment_spec = None THEN Raise(m, "Exception")
    ELSE IF IsMulti(m.experiment_spec)
    THEN LET experiments == Params(m.experiment_spec).experiments
             bad == FirstInvalid(experiments, 1)
         IN IF bad # 0
            THEN Transition(Log(ConfigureCalls(m, 1, bad), "WARN",
                                "Invalid experiment parameters in experiment"),
                            "IDLE")
            ELSE StageFirst(ConfigureCalls(m, 1, Len(experiments)))
    ELSE LET m1 == Hook(m, "configure_hardware")
         IN IF ConfigureHardware(Params(m.experiment_spec))
            THEN StageFirst(m1)
            ELSE Transition(Log(m1, "WARN",
                                "Invalid configuration parameters."), "IDLE")

EnterConfigurePending(m) == m

\* runs keeps the index of the experiment each entry of RUNNING starts
EnterRunning(m) ==
    HandleRun([m EXCEPT !.runs = Append(@, m.current_experiment_index)],
              m.cmd)

\* the send without its except clause: what rest.send_data raises gets out
SendExpData_mut(m) ==
    IF m.experiment_data = <<>>
    THEN Log(m, "INFO", "No experiment data to send to REST server.")
    ELSE LET m1 == Hook(m, "rest.send_data")
         IN CASE hw.rest = "ok" ->
                   Log(m1, "INFO", "Experiment data sent to REST server")
              [] hw.rest = "error" -> Log(m1, "ERROR", "REST POST failed")
              [] hw.rest = "raise" -> Raise(m1, "Exception")

\* ExperimentManager._send_exp_data
SendExpData(m) ==
    IF m.experiment_data = <<>>
    THEN Log(m, "INFO", "No experiment data to send to REST server.")
    ELSE LET m1 == Hook(m, "rest.send_data")
         IN CASE hw.rest = "ok" ->
                   Log(m1, "INFO", "Experiment data sent to REST server")
              [] hw.rest = "error" -> Log(m1, "ERROR", "REST POST failed")
              [] hw.rest = "raise" -> Log(m1, "ERROR", "REST POST exception")

\* ExperimentManager._get_experiment_tag: only its failure is of interest
GetExperimentTag(m) ==
    IF m.experiment_spec = None THEN Raise(m, "Exception")
    ELSE IF IsMulti(m.experiment_spec) /\ ~IndexInList(m)
    THEN Raise(m, "Exception")
    ELSE m

\* _send_exp_data(experiment_data, tag), reached when the tag was made
SendTagged(m) == IF m.exc # "none" THEN m ELSE SendExpData(m)

\* current_experiment_index += 1, then setup_current_experiment(), reached
\* when the statements before them raised nothing
SetupNextExperiment(m) ==
    IF m.exc # "none" THEN m
    ELSE SetupCurrentExperiment(
            [m EXCEPT !.current_experiment_index = @ + 1])

\* the test for a next experiment off by one: it runs past the last one
EnterPostProc_mut(m) ==
    LET m0 == IF m.experiment_data = <<>> THEN m
              ELSE IF m.experiment_spec = None THEN Raise(m, "Exception")
              ELSE Log(m, "INFO", "Experiment data saved")
    IN IF m0.exc # "none" THEN m0
       ELSE IF m0.experiment_spec = None THEN Raise(m0, "Exception")
       ELSE IF /\ Has(Params(m0.experiment_spec), "experiments")
               /\ m0.current_experiment_index
                    < Len(Params(m0.experiment_spec).experiments)
       THEN Except(ThenTransition(
                      SetupNextExperiment(SendTagged(GetExperimentTag(m0))),
                      "RUNNING"),
                   Exceptions, "Setup for next experiment failed", "ERROR")
       ELSE Transition(m0, "DONE")

EnterPostProc(m) ==
    LET m0 == IF m.experiment_data = <<>> THEN m
              ELSE IF m.experiment_spec = None THEN Raise(m, "Exception")
              ELSE Log(m, "INFO", "Experiment data saved")
    IN IF m0.exc # "none" THEN m0
       ELSE IF m0.experiment_spec = None THEN Raise(m0, "Exception")
       ELSE IF /\ Has(Params(m0.experiment_spec), "experiments")
               /\ m0.current_experiment_index
                    < Len(Params(m0.experiment_spec).experiments) - 1
       THEN Except(ThenTransition(
                      SetupNextExperiment(SendTagged(GetExperimentTag(m0))),
                      "RUNNING"),
                   Exceptions, "Setup for next experiment failed", "ERROR")
       ELSE Transition(m0, "DONE")

\* DONE that hands the data over and stays
EnterDone_mut(m) == SendTagged(GetExperimentTag(m))

EnterDone(m) ==
    ThenTransition(SendTagged(GetExperimentTag(m)), "IDLE")

EnterError(m) == m

EnterState(m, state) ==
    LET m1 == Publish(m, "status", state)
    IN CASE state = "IDLE" -> EnterIdle(m1)
         [] state = "CALIBRATING" -> EnterCalibrating(m1)
         [] state = "TESTINGSENSOR" -> EnterTestingSensor(m1)
         [] state = "CONFIGUREVALIDATE" -> EnterConfigureValidate(m1)
         [] state = "CONFIGUREPENDING" -> EnterConfigurePending(m1)
         [] state = "TESTINGACTUATOR" -> EnterTestingActuator(m1)
         [] state = "RUNNING" -> EnterRunning(m1)
         [] state = "POSTPROC" -> EnterPostProc(m1)
         [] state = "DONE" -> EnterDone(m1)
         [] state = "ERROR" -> EnterError(m1)
         [] OTHER -> m1

\* transition recording in the history the state it leaves
ChangeState_mut(m, prevState, new_state) ==
    IF m.exc # "none" THEN m
    ELSE Except(EnterState([m EXCEPT
                              !.state = new_state,
                              !.history = Append(@, prevState),
                              !.trace = Append(@, <<"state", prevState,
                                                    new_state>>)],
                           new_state),
                RuntimeErrors, "State entry failed", "ERROR")

\* transition after _exit_state: the state change and the entry action;
\* an exit action that raised leaves transition before them
ChangeState(m, prevState, new_state) ==
    IF m.exc # "none" THEN m
    ELSE Except(EnterState([m EXCEPT
                              !.state = new_state,
                              !.history = Append(@, new_state),
                              !.trace = Append(@, <<"state", prevState,
                                                    new_state>>)],
                           new_state),
                RuntimeErrors, "State entry failed", "ERROR")

Transition(m, new_state) ==
    IF ~IsValidTransition(m.state, new_state)
    THEN Transition(m, "ERROR")
    ELSE LET prevState == m.state
         IN ChangeState(ExitState(m, prevState), prevState, new_state)

(***************************************************************************)
(* Commands                                                                *)
(***************************************************************************)
\* ExperimentManager.abort
Abort(m) ==
    LET m1 == Publish(m, "status", "ABORT")
        m2 == [StopHardware(m1) EXCEPT !.exc = "none"]
    IN Transition(m2, "ERROR")

\* json.loads on the strings the model feeds in
JsonLoads(text) ==
    CASE text = "{\"cmd\": \"Reset\"}" ->
            [ok |-> TRUE, isdict |-> TRUE, val |-> [cmd |-> "Reset"]]
      [] text = "42" -> [ok |-> TRUE, isdict |-> FALSE, val |-> 42]
      [] OTHER -> [ok |-> FALSE, isdict |-> FALSE, val |-> None]

\* the try block with RunValid gated on the wrong state
Dispatch_mut(m, cmd) ==
    LET cmd_name == cmd.cmd
        m0 == [m EXCEPT !.cmd = cmd]
    IN CASE cmd_name = "Calibrate" -> Transition(m0, "CALIBRATING")
         [] cmd_name = "Test" ->
              IF Has(cmd, "params") /\ Has(cmd.params, "target")
              THEN IF cmd.params.target = "sensor"
                   THEN Transition(m0, "TESTINGSENSOR")
                   ELSE Transition([m0 EXCEPT !.experiment_spec = cmd],
                                   "CONFIGUREVALIDATE")
              ELSE Transition(Log(m0, "ERROR",
                                  "Missing 'target' in Test command."),
                              "ERROR")
         [] cmd_name = "Run" ->
              Transition([m0 EXCEPT !.experiment_spec = cmd],
                         "CONFIGUREVALIDATE")
         [] cmd_name = "TestValid" -> Transition(m0, "TESTINGACTUATOR")
         [] cmd_name = "RunValid" ->
              IF m0.state # "CONFIGUREVALIDATE"
              THEN Transition(Log(m0, "WARN", "Invalid RunValid from state"),
                              "ERROR")
              ELSE Transition(m0, "RUNNING")
         [] cmd_name = "Reset" -> Transition(m0, "IDLE")
         [] cmd_name = "Abort" -> Abort(m0)

\* the try block of handle_command
Dispatch(m, cmd) ==
    LET cmd_name == cmd.cmd
        m0 == [m EXCEPT !.cmd = cmd]
    IN CASE cmd_name = "Calibrate" -> Transition(m0, "CALIBRATING")
         [] cmd_name = "Test" ->
              IF Has(cmd, "params") /\ Has(cmd.params, "target")
              THEN IF cmd.params.target = "sensor"
                   THEN Transition(m0, "TESTINGSENSOR")
                   ELSE Transition([m0 EXCEPT !.experiment_spec = cmd],
                                   "CONFIGUREVALIDATE")
              ELSE Transition(Log(m0, "ERROR",
                                  "Missing 'target' in Test command."),
                              "ERROR")
         [] cmd_name = "Run" ->
              Transition([m0 EXCEPT !.experiment_spec = cmd],
                         "CONFIGUREVALIDATE")
         [] cmd_name = "TestValid" -> Transition(m0, "TESTINGACTUATOR")
         [] cmd_name = "RunValid" ->
              IF m0.state # "CONFIGUREPENDING"
              THEN Transition(Log(m0, "WARN", "Invalid RunValid from state"),
                              "ERROR")
              ELSE Transition(m0, "RUNNING")
         [] cmd_name = "Reset" -> Transition(m0, "IDLE")
         [] cmd_name = "Abort" -> Abort(m0)

\* handle_command treating an unknown command name as a fault
HandleCommandFn_mut(m, input) ==
    LET parsed == IF input.type = "str" THEN JsonLoads(input.text)
                  ELSE [ok |-> TRUE, isdict |-> TRUE, val |-> input.val]
    IN IF ~parsed.ok
       THEN Log(m, "ERROR", "Invalid JSON command structure.")
       ELSE IF ~parsed.isdict \/ ~Has(parsed.val, "cmd")
       THEN Log(m, "ERROR", "Invalid command structure.")
       ELSE IF parsed.val.cmd \notin VALID_COMMANDS
       THEN Transition(Log(m, "ERROR", "Unknown command"), "ERROR")
       ELSE Except(Dispatch(m, parsed.val), Exceptions,
                   "Command handler error", "ERROR")

\* ExperimentManager.handle_command
HandleCommandFn(m, input) ==
    LET parsed == IF input.type = "str" THEN JsonLoads(input.text)
                  ELSE [ok |-> TRUE, isdict |-> TRUE, val |-> input.val]
    IN IF ~parsed.ok
       THEN Log(m, "ERROR", "Invalid JSON command structure.")
       ELSE IF ~parsed.isdict \/ ~Has(parsed.val, "cmd")
       THEN Log(m, "ERROR", "Invalid command structure.")
       ELSE IF parsed.val.cmd \notin VALID_COMMANDS
       THEN Log(m, "ERROR", "Unknown command")
       ELSE Except(Dispatch(m, parsed.val), Exceptions,
                   "Command handler error", "ERROR")

(***************************************************************************)
(* The transport session (pythonCommon/CommClient.py)                      *)
(*                                                                         *)
(* One CommClient instance is the record comm.  Besides the attributes of  *)
(* the Python object it holds what the object shares the process with:     *)
(*   clients : the mqtt.Client objects connect() created, in order; open   *)
(*             tells that the client's connection to the broker is open,   *)
(*             loop that its network loop thread runs, acked that the      *)
(*             broker confirmed the connection.  mqtt_client is an index   *)
(*             into clients, 0 for None;                                   *)
(*   timers  : the heartbeat threads started so far, TRUE while alive;     *)
(*             heartbeat_timer is an index into timers, 0 for None;        *)
(*   pc      : where each thread of the host stands inside connect();      *)
(*   out     : the records the broker received from this session;          *)
(*   traffic : every message received and every message published;        *)
(*   op      : the step taken last and how it ended.                       *)
(* A callback of a client runs on that client's network loop thread, and   *)
(* a loop that runs reconnects after the broker drops the connection.      *)
(***************************************************************************)
\* the threads of the host that call connect() and disconnect()
Callers == {"main", "worker"}

CmdTopic == "node1/cmd"
StatusTopic == "node1/status"

\* config['heartbeatInterval'], 0 by default
Intervals == {0, 30}

\* config['onMessageCallback']: a callback that returns, one that raises
CallbackModes == {"ok", "raises"}

\* deque(maxlen=1000)
LogCapacity == 1000

\* the payloads of the messages the broker delivers (an MQTT payload may be
\* empty)
Payloads == {"start", ""}

\* CommClient.__init__
NewCommClient(interval, callback) ==
    [connected |-> FALSE, mqtt_client |-> 0, lock |-> "free",
     heartbeat_timer |-> 0, stop_event |-> FALSE,
     heartbeat_interval |-> interval, on_message_callback |-> callback,
     message_log |-> <<>>, subscriptions |-> <<CmdTopic>>,
     clients |-> <<>>, timers |-> <<>>, pc |-> [t \in Callers |-> "idle"],
     out |-> <<>>, traffic |-> <<>>, delivered |-> 0,
     calls |-> 0, drops |-> 0, op |-> [name |-> "new"]]

\* CommClient._cleanup_connection
CleanupConnection(c) == [c EXCEPT !.connected = FALSE, !.mqtt_client = 0]

\* CommClient._start_heartbeat_timer
StartHeartbeatTimer(c) ==
    IF c.heartbeat_interval <= 0 THEN c
    ELSE [c EXCEPT !.stop_event = FALSE,
                   !.timers = Append(@, TRUE),
                   !.heartbeat_timer = Len(c.timers) + 1]

\* CommClient._stop_heartbeat_timer: the thread wakes up on the event and
\* ends within the second the join waits for it
StopHeartbeatTimer(c) ==
    IF c.heartbeat_timer # 0 /\ c.timers[c.heartbeat_timer]
    THEN [c EXCEPT !.stop_event = TRUE,
                   !.timers[c.heartbeat_timer] = FALSE,
                   !.heartbeat_timer = 0]
    ELSE c

\* CommClient.add_to_log raises ValueError for an empty topic or message
AddToLogRaises(topic, message) == topic = "" \/ message = ""

\* deque.append on a deque with maxlen
AddToLog(c, topic, message) ==
    LET entry == [topic |-> topic, message |-> message]
    IN [c EXCEPT !.message_log =
                    IF Len(@) = LogCapacity THEN Append(Tail(@), entry)
                    ELSE Append(@, entry)]

\* how CommClient.comm_publish ends: ConnectionError without a session,
\* Exception when the client reports that it could not send
CommPublishResult(c) ==
    IF ~c.connected \/ c.mqtt_client = 0 THEN "ConnectionError"
    ELSE IF ~c.clients[c.mqtt_client].open THEN "Exception"
    ELSE "ok"

\* CommClient.comm_publish
CommPublish(c, topic, payload) ==
    IF CommPublishResult(c) = "ok"
    THEN [c EXCEPT !.out = Append(@, <<topic, payload>>),
                   !.traffic = Append(@, <<topic, payload>>)]
    ELSE c

\* CommClient.send_heartbeat: skipped without a session, and what
\* comm_publish raises is logged
SendHeartbeat(c) ==
    IF ~c.connected \/ c.mqtt_client = 0 THEN c
    ELSE CommPublish(c, StatusTopic, "heartbeat")

(***************************************************************************)
(* The liveness monitor and the reconnection policy                        *)
(* (common/mqtt_manager.py)                                                *)
(*                                                                         *)
(* One MQTTManager instance is the record mqtt.  Besides the attributes of *)
(* the Python object it holds:                                             *)
(*   now       : time.time(), in units of the smallest timeout;            *)
(*   watchers  : the _heartbeat_watcher threads started so far, each       *)
(*               "polling" (in its loop), "timeout" (it found the elapsed  *)
(*               time above the limit and is about to invoke the callback) *)
(*               or "done";                                                *)
(*   callbacks : the invocations of on_heartbeat_timeout, each with the    *)
(*               time of the invocation, the elapsed time and the limit    *)
(*               the watcher compared, and late as it was then;            *)
(*   late      : whether, since monitoring last started afresh, the time   *)
(*               since the last reset has exceeded the timeout;            *)
(*   connect   : where the caller of connect() stands, and tries, how each *)
(*               of its attempts ended;                                    *)
(*   handler   : the on_disconnect callback: the code it was called with   *)
(*               (rc0), where it stands and how each reconnect() ended;    *)
(*   link      : whether the connection to the broker is up.               *)
(* -1 stands for None.                                                     *)
(***************************************************************************)
\* the timeouts handed to enable_heartbeat_monitor
Timeouts == {1, 2}

\* how a connection attempt ends: client.connect and client.reconnect
\* return MQTT_ERR_SUCCESS, or raise
Outcomes == {"ok", "raise"}

\* MQTTManager.__init__
NewMQTTManager ==
    [heartbeat_timeout |-> -1, last_heartbeat_time |-> -1,
     heartbeat_monitor_active |-> FALSE,
     now |-> 0, watchers |-> <<>>, callbacks |-> <<>>, enables |-> 0,
     late |-> FALSE,
     connect |-> "idle", tries |-> <<>>, link |-> "down",
     handler |-> [pc |-> "idle", rc0 |-> 0, tries |-> <<>>],
     failures |-> 0, op |-> [name |-> "new"]]

\* the watcher threads that have not ended
Alive(q) == {w \in 1..Len(q.watchers) : q.watchers[w].pc # "done"}

\* elapsed > self.heartbeat_timeout
Exceeded(elapsed, timeout) == elapsed > timeout

(***************************************************************************)
(* The controller (test_master_node): the registry and the correlator      *)
(*                                                                         *)
(* One controller process is the record ctl:                               *)
(*   script  : the script it runs, experiment_runner or                    *)
(*             test_command_w_discovery: each has its own response handler;*)
(*   nodes   : registry.nodes, a function from the ids registered to the   *)
(*             Node objects (ip_address, role, capabilities, last_seen,    *)
(*             status, history: of each record the command and the status);*)
(*   now     : time.time(), in seconds;                                    *)
(*   pending : pending_responses, a function from node ids to booleans;    *)
(*   main    : the main thread: where it stands (pc), the node and the     *)
(*             command it last sent to, the timeout of its wait and the    *)
(*             time waited, both counted in sleeps of 0.1 s, the result of *)
(*             its last wait, and flagged, the responses carrying the      *)
(*             node's id that the handler met while the wait was           *)
(*             outstanding;                                                *)
(*   events  : the number of messages handled, sent : of commands sent;    *)
(*   op      : the step taken last.                                        *)
(* An absent or null capabilities field and an empty list are both <<>>:   *)
(* Python's `or` treats them alike.                                        *)
(***************************************************************************)
NodeIds == {"n1", "n2"}

Scripts == {"experiment_runner", "test_command_w_discovery"}

\* registry node timeout threshold, in seconds
NODE_TIMEOUT_SECONDS == 5

COMMAND_CALIBRATE == "calibrate"
COMMAND_VALIDATE == "validate"
STATUS_SUCCESS == "success"
STATUS_ERROR == "error"

\* the discovery messages: node_info
Addresses == {"10.0.0.1"}
CapabilityLists == {<<>>, <<"sensor">>, <<"sensor", "actuator">>}
NodeInfos ==
    [node_id : NodeIds, ip_address : Addresses, role : {"test_node"},
     capabilities : CapabilityLists]

\* the command responses
Responses ==
    [node_id : NodeIds, command : {COMMAND_CALIBRATE, COMMAND_VALIDATE},
     status : {STATUS_SUCCESS, STATUS_ERROR}]

\* the timeouts handed to wait_for_response, in sleeps of 0.1 s
WaitTimeouts == {1, 2}

\* x or y, on lists
Or(x, y) == IF x = <<>> THEN y ELSE x

\* Node.__init__
Node(node_id, ip_address, role, capabilities, now) ==
    [node_id |-> node_id, ip_address |-> ip_address, role |-> role,
     capabilities |-> Or(capabilities, <<>>), last_seen |-> now,
     status |-> "online", history |-> <<>>]

\* the function nodes with the entry of node_id set to node (a dict store)
Store(nodes, node_id, node) ==
    [k \in DOMAIN nodes \cup {node_id} |->
        IF k = node_id THEN node ELSE nodes[k]]

\* add_or_update_node of common/node_registry.py: a node that was offline
\* stays offline
AddOrUpdateNode_mut(nodes, now, node_id, ip_address, role, capabilities) ==
    IF node_id \in DOMAIN nodes
    THEN [nodes EXCEPT ![node_id] =
            [@ EXCEPT !.ip_address = ip_address,
                      !.role = role,
                      !.capabilities = Or(capabilities, @),
                      !.last_seen = now]]
    ELSE Store(nodes, node_id,
               Node(node_id, ip_address, role, capabilities, now))

\* NodeRegistry.add_or_update_node
AddOrUpdateNode(nodes, now, node_id, ip_address, role, capabilities) ==
    IF node_id \in DOMAIN nodes
    THEN [nodes EXCEPT ![node_id] =
            [@ EXCEPT !.ip_address = ip_address,
                      !.role = role,
                      !.capabilities = Or(capabilities, @),
                      !.last_seen = now,
                      !.status = IF @ = "offline" THEN "online" ELSE @]]
    ELSE Store(nodes, node_id,
               Node(node_id, ip_address, role, capabilities, now))

\* NodeRegistry.check_for_offline_nodes
CheckForOfflineNodes(nodes, now, timeout_seconds) ==
    [k \in DOMAIN nodes |->
        IF now - nodes[k].last_seen > timeout_seconds
           /\ nodes[k].status # "offline"
        THEN [nodes[k] EXCEPT !.status = "offline"]
        ELSE nodes[k]]

\* Node.to_dict; last_seen_readable is
\* datetime.fromtimestamp(last_seen).strftime("%Y-%m-%d %H:%M:%S")
ToDict(node) ==
    [node_id |-> node.node_id, ip_address |-> node.ip_address,
     role |-> node.role, capabilities |-> node.capabilities,
     last_seen |-> node.last_seen,
     last_seen_readable |-> <<"%Y-%m-%d %H:%M:%S", node.last_seen>>,
     status |-> node.status, history |-> node.history]

\* what NodeRegistry.save_registry writes to the file
SaveRegistry(nodes) == [k \in DOMAIN nodes |-> ToDict(nodes[k])]

\* the registry NodeRegistry.load_registry builds from the file
LoadRegistry(data, now) ==
    [k \in DOMAIN data |->
        [Node(data[k].node_id, data[k].ip_address, data[k].role,
              data[k].capabilities, now)
           EXCEPT !.last_seen = data[k].last_seen,
                  !.status = data[k].status]]

\* the record handle_command_response appends to node.history
HistoryRecord(response) ==
    [command |-> response.command, status |-> response.status]

\* handle_command_response of experiment_runner.py, the registry part
RunnerResponse(nodes, response) ==
    IF response.node_id \in DOMAIN nodes
    THEN [nodes EXCEPT ![response.node_id] =
            [@ EXCEPT !.status =
                         IF response.command = COMMAND_CALIBRATE
                            /\ response.status = STATUS_SUCCESS
                         THEN "calibrated" ELSE @,
                      !.history = Append(@, HistoryRecord(response))]]
    ELSE nodes

\* handle_command_response of test_command_w_discovery.py
DiscoveryResponse(nodes, response) ==
    IF response.node_id \in DOMAIN nodes
    THEN [nodes EXCEPT ![response.node_id] =
            [@ EXCEPT !.status =
                         IF response.command = COMMAND_CALIBRATE
                            /\ response.status = STATUS_SUCCESS
                         THEN "calibrated"
                         ELSE IF response.status = STATUS_ERROR
                         THEN "error" ELSE @,
                      !.history = Append(@, HistoryRecord(response))]]
    ELSE nodes

\* NodeRegistry() without a saved registry, and pending_responses = {}
NewController(script) ==
    [script |-> script, nodes |-> <<>>, now |-> 0, pending |-> <<>>,
     main |-> [pc |-> "idle", node |-> "none", command |-> "none",
              timeout |-> 0, waited |-> 0, result |-> "none",
              flagged |-> <<>>, early |-> FALSE],
     events |-> 0, sent |-> 0, op |-> [name |-> "new"],
     run |-> [pc |-> "boot", step |-> 0, log |-> <<>>],
     saved |-> <<>>,
     sweep |-> [pc |-> "sleeping", todo |-> {}, used |-> 0,
                current_time |-> 0, node |-> "none"]]

(***************************************************************************)
(* Inputs                                                                  *)
(***************************************************************************)
Heights == {1, 3}

\* parameter sets of one experiment: accepted, negative amplitude, no wave
GoodExp == [waveType |-> "sin", amplitude |-> 1]
BadAmpExp == [waveType |-> "sin", amplitude |-> -1]
NoWaveExp == [amplitude |-> 1]
Exps == {GoodExp, BadAmpExp}

ExpLists == UNION {[1..n -> Exps] : n \in 1..MaxExps}

Dict(d) == [type |-> "dict", val |-> d]
Str(t) == [type |-> "str", text |-> t]

CalibrateCmds ==
    {Dict([cmd |-> "Calibrate", params |-> [height |-> h]]) : h \in Heights}
    \cup {Dict([cmd |-> "Calibrate", params |-> [finished |-> TRUE]]),
          Dict([cmd |-> "Calibrate", params |-> [unknownField |-> 123]])}

TestCmds ==
    {Dict([cmd |-> "Test", params |-> [target |-> "sensor"]]),
     Dict([cmd |-> "Test", params |-> [target |-> "actuator",
                                      waveType |-> "sin", amplitude |-> 1]]),
     Dict([cmd |-> "Test"])}

RunCmds ==
    {Dict([cmd |-> "Run", params |-> p]) : p \in {GoodExp, BadAmpExp, NoWaveExp}}
    \cup {Dict([cmd |-> "Run", params |-> [experiments |-> l]]) : l \in ExpLists}

PlainCmds ==
    {Dict([cmd |-> c]) : c \in {"TestValid", "RunValid", "Reset", "Abort"}}

\* inputs handle_command does not recognize
UnrecognizedInputs ==
    {Dict([cmd |-> "UnknownCommand"]), Dict([invalid |-> "structure"]),
     Str("invalid json"), Str("42")}

Inputs ==
    CalibrateCmds \cup TestCmds \cup RunCmds \cup PlainCmds
    \cup UnrecognizedInputs \cup {Str("{\"cmd\": \"Reset\"}")}

\* the calibration table loaded by the constructor
BiasTables == {[s1 |-> Rat(0, 1), s2 |-> Rat(5, 1)]}

(***************************************************************************)
(* Specification                                                           *)
(***************************************************************************)
NoCal == [phase |-> "none"]

\* the fields assigned by __init__ before it checks its collaborators
InitMgr(sensor, actuator, bias) ==
    [state |-> "BOOT", history |-> <<"BOOT">>, fsm_log |-> <<>>,
     has_sensor |-> sensor, has_actuator |-> actuator,
     experiment_data |-> <<>>, bias_table |-> bias,
     experiment_spec |-> None, current_experiment_index |-> 0,
     cmd |-> None, height_log |-> <<>>,
     exc |-> "none", trace |-> <<>>, runs |-> <<>>]

Init ==
    /\ \E sensor \in BOOLEAN, actuator \in BOOLEAN, bias \in BiasTables :
          mgr = InitMgr(sensor, actuator, bias)
    /\ \E r \in RunModes :
          hw = [stop |-> "ok", run |-> r, rest |-> "ok", data |-> FALSE]
    /\ nsteps = 0
    /\ last = [op |-> "init"]
    /\ prev = mgr
    /\ cal = NoCal
    /\ comm = NewCommClient(0, "ok")
    /\ mqtt = NewMQTTManager
    /\ ctl = NewController("experiment_runner")

\* what a top-level call starts from: nothing raised, nothing observed yet
Fresh(m) == [m EXCEPT !.exc = "none", !.trace = <<>>, !.runs = <<>>]

\* the end of __init__: initialize_hardware, then transition(State.IDLE)
Construct ==
    /\ mgr.state = "BOOT"
    /\ mgr' = Transition(Hook(Fresh(mgr), "initialize_hardware"), "IDLE")
    /\ prev' = mgr
    /\ last' = [op |-> "construct"]
    /\ UNCHANGED <<hw, nsteps, cal, comm, mqtt, ctl>>

Constructed == mgr.state # "BOOT"

\* the run of consecutive Calibrate step commands the next command extends
CalAfter(input) ==
    IF input.type = "dict" /\ Has(input.val, "cmd")
       /\ input.val.cmd = "Calibrate" /\ Has(input.val, "params")
    THEN LET p == input.val.params
             start == [phase |-> "steps", from |-> mgr.state,
                       bias0 |-> mgr.bias_table, buf0 |-> mgr.height_log,
                       hs |-> <<>>]
             run == IF cal.phase = "steps" THEN cal ELSE start
         IN IF Has(p, "finished") /\ p.finished = TRUE
            THEN [run EXCEPT !.phase = "finished"]
            ELSE IF Has(p, "height")
            THEN [run EXCEPT !.hs = Append(@, p.height)]
            ELSE NoCal
    ELSE NoCal

HandleCommand(input) ==
    /\ Constructed
    /\ nsteps < MaxSteps
    /\ mgr' = HandleCommandFn(Fresh(mgr), input)
    /\ prev' = mgr
    /\ last' = [op |-> "command", input |-> input]
    /\ cal' = CalAfter(input)
    /\ nsteps' = nsteps + 1
    /\ UNCHANGED <<hw, comm, mqtt, ctl>>

\* transition called directly by the host or by a hook outside a command
RequestTransition(t) ==
    /\ Constructed
    /\ nsteps < MaxSteps
    /\ mgr' = Transition(Fresh(mgr), t)
    /\ prev' = mgr
    /\ last' = [op |-> "transition", target |-> t]
    /\ cal' = NoCal
    /\ nsteps' = nsteps + 1
    /\ UNCHANGED <<hw, comm, mqtt, ctl>>

Next ==
    \/ Construct
    \/ \E input \in Inputs : HandleCommand(input)
    \/ \E t \in State : RequestTransition(t)

\* the controller with hooks that return normally
Spec == Init /\ [][Next]_vars

\* a node with both capabilities whose run hook buffers a record for each
\* run, and a REST collaborator that accepts, refuses or raises
InitRest ==
    /\ \E bias \in BiasTables : mgr = InitMgr(TRUE, TRUE, bias)
    /\ \E r \in RunModes, e \in RestModes :
          hw = [stop |-> "ok", run |-> r, rest |-> e, data |-> TRUE]
    /\ nsteps = 0
    /\ last = [op |-> "init"]
    /\ prev = mgr
    /\ cal = NoCal
    /\ comm = NewCommClient(0, "ok")
    /\ mqtt = NewMQTTManager
    /\ ctl = NewController("experiment_runner")

SpecRest == InitRest /\ [][Next]_vars

\* the hardware breaks: from now on stop_hardware raises
HardwareFault(mode) ==
    /\ Constructed
    /\ nsteps < MaxSteps
    /\ hw.stop = "ok"
    /\ hw' = [hw EXCEPT !.stop = mode]
    /\ nsteps' = nsteps + 1
    /\ UNCHANGED <<mgr, last, prev, cal, comm, mqtt, ctl>>

NextFault ==
    \/ Next
    \/ \E mode \in StopModes \ {"ok"} : HardwareFault(mode)

\* the controller on hardware whose stop hook may start to fail
SpecFault == Init /\ [][NextFault]_vars

(***************************************************************************)
(* The transport session: its calls, callbacks and threads                 *)
(***************************************************************************)
\* connect() without the test of the connection flag
ConnectCall_mut(t) ==
    /\ comm.pc[t] = "idle"
    /\ comm.lock = "free"
    /\ comm.calls < MaxCalls
    /\ LET c0 == [comm EXCEPT !.calls = @ + 1]
           op == [name |-> "connect", by |-> t, found |-> comm.connected,
                  result |-> "none"]
       IN \E reachable \in BOOLEAN :
             comm' =
                IF reachable
                THEN [c0 EXCEPT
                        !.clients = Append(@, [open |-> TRUE,
                                               loop |-> TRUE,
                                               acked |-> FALSE,
                                               subs |-> {}]),
                        !.mqtt_client = Len(comm.clients) + 1,
                        !.lock = t,
                        !.pc[t] = "waiting",
                        !.op = [op EXCEPT !.result = "waiting"]]
                ELSE [CleanupConnection(c0) EXCEPT
                        !.op = [op EXCEPT !.result = "Exception"]]
    /\ UNCHANGED <<fsmVars, mqtt, ctl>>

\* connect(), up to the start of the network loop; the lock is taken and,
\* unless the call returns at once, kept
ConnectCall(t) ==
    /\ comm.pc[t] = "idle"
    /\ comm.lock = "free"
    /\ comm.calls < MaxCalls
    /\ LET c0 == [comm EXCEPT !.calls = @ + 1]
           op == [name |-> "connect", by |-> t, found |-> comm.connected,
                  result |-> "none"]
       IN IF comm.connected
          THEN comm' = [c0 EXCEPT !.op = [op EXCEPT !.result = "ok"]]
          ELSE \E reachable \in BOOLEAN :
                  comm' =
                     IF reachable
                     THEN [c0 EXCEPT
                             !.clients = Append(@, [open |-> TRUE,
                                                    loop |-> TRUE,
                                                    acked |-> FALSE,
                                                    subs |-> {}]),
                             !.mqtt_client = Len(comm.clients) + 1,
                             !.lock = t,
                             !.pc[t] = "waiting",
                             !.op = [op EXCEPT !.result = "waiting"]]
                     ELSE [CleanupConnection(c0) EXCEPT
                             !.op = [op EXCEPT !.result = "Exception"]]
    /\ UNCHANGED <<fsmVars, mqtt, ctl>>

\* connect(), the end of the wait: the confirmation was seen, or the
\* timeout elapsed without it
ConnectWait(t) ==
    /\ comm.pc[t] = "waiting"
    /\ LET op == [name |-> "connect", by |-> t, found |-> FALSE,
                  result |-> "none"]
       IN comm' =
             IF comm.connected
             THEN [comm EXCEPT !.pc[t] = "confirmed",
                               !.op = [op EXCEPT !.result = "confirmed"]]
             ELSE [CleanupConnection(comm) EXCEPT
                     !.lock = "free",
                     !.pc[t] = "idle",
                     !.op = [op EXCEPT !.result = "ConnectionError"]]
    /\ UNCHANGED <<fsmVars, mqtt, ctl>>

\* connect(), after the wait: the subscriptions and the heartbeat timer
ConnectFinish(t) ==
    /\ comm.pc[t] = "confirmed"
    /\ LET op == [name |-> "connect", by |-> t, found |-> FALSE,
                  result |-> "none"]
           k == comm.mqtt_client
           subscribed == [comm EXCEPT !.clients[k].subs =
                             {comm.subscriptions[i] :
                                 i \in 1..Len(comm.subscriptions)}]
       IN comm' =
             IF comm.clients[k].open
             THEN [StartHeartbeatTimer(subscribed) EXCEPT
                     !.lock = "free",
                     !.pc[t] = "idle",
                     !.op = [op EXCEPT !.result = "ok"]]
             ELSE [CleanupConnection(comm) EXCEPT
                     !.lock = "free",
                     !.pc[t] = "idle",
                     !.op = [op EXCEPT !.result = "Exception"]]
    /\ UNCHANGED <<fsmVars, mqtt, ctl>>

\* CommClient.disconnect
Disconnect(c) ==
    IF ~c.connected THEN c
    ELSE LET c1 == StopHeartbeatTimer(c)
             k == c1.mqtt_client
             c2 == IF k # 0
                   THEN [c1 EXCEPT !.clients[k].loop = FALSE,
                                   !.clients[k].open = FALSE,
                                   !.clients[k].acked = FALSE]
                   ELSE c1
         IN CleanupConnection(c2)

DisconnectCall(t) ==
    /\ comm.pc[t] = "idle"
    /\ comm.lock = "free"
    /\ comm.calls < MaxCalls
    /\ comm' = [Disconnect(comm) EXCEPT
                  !.calls = @ + 1,
                  !.op = [name |-> "disconnect", by |-> t,
                          found |-> comm.connected, result |-> "ok"]]
    /\ UNCHANGED <<fsmVars, mqtt, ctl>>

\* CommClient._on_connect with rc = 0, on the loop thread of client k
OnConnect(k) ==
    /\ comm.clients[k].loop
    /\ comm.clients[k].open
    /\ ~comm.clients[k].acked
    /\ comm' = [comm EXCEPT !.clients[k].acked = TRUE,
                            !.connected = TRUE,
                            !.op = [name |-> "on_connect", client |-> k]]
    /\ UNCHANGED <<fsmVars, mqtt, ctl>>

\* the broker drops the connection of client k: CommClient._on_disconnect
OnDisconnect(k) ==
    /\ comm.clients[k].loop
    /\ comm.clients[k].open
    /\ comm.drops < MaxDrops
    /\ comm' = [comm EXCEPT !.clients[k].open = FALSE,
                            !.clients[k].acked = FALSE,
                            !.connected = FALSE,
                            !.drops = @ + 1,
                            !.op = [name |-> "on_disconnect", client |-> k]]
    /\ UNCHANGED <<fsmVars, mqtt, ctl>>

\* the network loop of client k opens its connection again
Reconnect(k) ==
    /\ comm.clients[k].loop
    /\ ~comm.clients[k].open
    /\ comm' = [comm EXCEPT !.clients[k].open = TRUE,
                            !.op = [name |-> "reconnect", client |-> k]]
    /\ UNCHANGED <<fsmVars, mqtt, ctl>>

\* one round of heartbeat_loop in the heartbeat thread h
HeartbeatLoop(c, h) ==
    IF c.stop_event THEN [c EXCEPT !.timers[h] = FALSE]
    ELSE IF c.connected THEN SendHeartbeat(c)
    ELSE [c EXCEPT !.timers[h] = FALSE]

HeartbeatTick(h) ==
    /\ comm.timers[h]
    /\ Len(comm.traffic) < MaxMsgs
    /\ LET c1 == HeartbeatLoop(comm, h)
       IN comm' = [c1 EXCEPT !.op = [name |-> "tick", timer |-> h,
                                     found |-> comm.connected,
                                     stopped |-> comm.stop_event,
                                     sent |-> Len(c1.out) - Len(comm.out)]]
    /\ UNCHANGED <<fsmVars, mqtt, ctl>>

\* CommClient.handle_message, called by _on_message on the loop thread of
\* a client whose connection is confirmed
HandleMessage(k, message) ==
    /\ comm.clients[k].loop
    /\ comm.clients[k].open
    /\ comm.clients[k].acked
    /\ Len(comm.traffic) < MaxMsgs
    /\ LET c0 == [comm EXCEPT !.traffic = Append(@, <<CmdTopic, message>>)]
           op == [name |-> "message", client |-> k, message |-> message,
                  result |-> "none"]
       IN comm' =
             IF AddToLogRaises(CmdTopic, message)
             THEN [c0 EXCEPT !.op = [op EXCEPT !.result = "ValueError"]]
             ELSE [AddToLog(c0, CmdTopic, message) EXCEPT
                     !.delivered = IF comm.on_message_callback = "none"
                                   THEN @ ELSE @ + 1,
                     !.op = [op EXCEPT !.result = "ok"]]
    /\ UNCHANGED <<fsmVars, mqtt, ctl>>

\* comm_publish called by the host
PublishCall(payload) ==
    /\ Len(comm.traffic) < MaxMsgs
    /\ comm' = [CommPublish(comm, "node1/data", payload) EXCEPT
                  !.op = [name |-> "publish", payload |-> payload,
                          result |-> CommPublishResult(comm)]]
    /\ UNCHANGED <<fsmVars, mqtt, ctl>>

InitComm ==
    /\ \E interval \in Intervals, callback \in CallbackModes :
          comm = NewCommClient(interval, callback)
    /\ mqtt = NewMQTTManager
    /\ ctl = NewController("experiment_runner")
    /\ \E bias \in BiasTables : mgr = InitMgr(TRUE, TRUE, bias)
    /\ hw = [stop |-> "ok", run |-> "sync", rest |-> "ok", data |-> FALSE]
    /\ nsteps = 0
    /\ last = [op |-> "init"]
    /\ prev = mgr
    /\ cal = NoCal

NextComm ==
    \/ \E t \in Callers : ConnectCall(t)
    \/ \E t \in Callers : ConnectWait(t)
    \/ \E t \in Callers : ConnectFinish(t)
    \/ \E t \in Callers : DisconnectCall(t)
    \/ \E k \in 1..Len(comm.clients) : OnConnect(k)
    \/ \E k \in 1..Len(comm.clients) : OnDisconnect(k)
    \/ \E k \in 1..Len(comm.clients) : Reconnect(k)
    \/ \E h \in 1..Len(comm.timers) : HeartbeatTick(h)
    \/ PublishCall("sample")
    \/ \E k \in 1..Len(comm.clients), message \in Payloads :
          HandleMessage(k, message)

\* one transport session, the threads of its host, and the broker
SpecComm == InitComm /\ [][NextComm]_vars

(***************************************************************************)
(* The liveness monitor and the reconnection policy: calls and threads     *)
(***************************************************************************)
\* MQTTManager.enable_heartbeat_monitor; monitoring starts afresh when no
\* watcher of an earlier call is left
EnableHeartbeatMonitor(timeout_seconds) ==
    /\ mqtt.enables < MaxEnables
    /\ mqtt' = [mqtt EXCEPT
                  !.heartbeat_timeout = timeout_seconds,
                  !.last_heartbeat_time = mqtt.now,
                  !.heartbeat_monitor_active = TRUE,
                  !.watchers = Append(@, [pc |-> "polling", elapsed |-> 0,
                                           limit |-> 0]),
                  !.enables = @ + 1,
                  !.late = IF Alive(mqtt) = {} THEN FALSE ELSE @,
                  !.op = [name |-> "enable"]]
    /\ UNCHANGED <<fsmVars, comm, ctl>>

\* MQTTManager.reset_heartbeat_timer
ResetHeartbeatTimer ==
    /\ mqtt' = [mqtt EXCEPT !.last_heartbeat_time = mqtt.now,
                            !.op = [name |-> "reset"]]
    /\ UNCHANGED <<fsmVars, comm, ctl>>

\* time passes
Tick ==
    /\ mqtt.now < MaxTime
    /\ mqtt' = [mqtt EXCEPT
                  !.now = @ + 1,
                  !.late = \/ @
                           \/ /\ Alive(mqtt) # {}
                              /\ mqtt.now + 1 - mqtt.last_heartbeat_time
                                    > mqtt.heartbeat_timeout,
                  !.op = [name |-> "tick"]]
    /\ UNCHANGED <<fsmVars, comm, ctl>>

\* MQTTManager._heartbeat_watcher: the test of the loop, the sleep and the
\* comparison of one iteration
WatcherPoll(w) ==
    /\ mqtt.watchers[w].pc = "polling"
    /\ LET elapsed == mqtt.now - mqtt.last_heartbeat_time
       IN mqtt' =
             IF ~mqtt.heartbeat_monitor_active
             THEN [mqtt EXCEPT !.watchers[w].pc = "done",
                               !.op = [name |-> "poll"]]
             ELSE IF Exceeded(elapsed, mqtt.heartbeat_timeout)
             THEN [mqtt EXCEPT
                     !.watchers[w] = [pc |-> "timeout", elapsed |-> elapsed,
                                      limit |-> mqtt.heartbeat_timeout],
                     !.op = [name |-> "poll"]]
             ELSE [mqtt EXCEPT !.op = [name |-> "poll"]]
    /\ UNCHANGED <<fsmVars, comm, ctl>>

\* a watcher that invokes the callback and goes on monitoring
WatcherTimeout_mut(w) ==
    /\ mqtt.watchers[w].pc = "timeout"
    /\ mqtt' = [mqtt EXCEPT
                  !.callbacks = Append(@, [at |-> mqtt.now,
                                           elapsed |-> mqtt.watchers[w].elapsed,
                                           limit |-> mqtt.watchers[w].limit,
                                           late |-> mqtt.late]),
                  !.watchers[w].pc = "polling",
                  !.op = [name |-> "callback"]]
    /\ UNCHANGED <<fsmVars, comm, ctl>>

\* MQTTManager._heartbeat_watcher: on_heartbeat_timeout(), then the flag is
\* cleared and the loop ends
WatcherTimeout(w) ==
    /\ mqtt.watchers[w].pc = "timeout"
    /\ mqtt' = [mqtt EXCEPT
                  !.callbacks = Append(@, [at |-> mqtt.now,
                                           elapsed |-> mqtt.watchers[w].elapsed,
                                           limit |-> mqtt.watchers[w].limit,
                                           late |-> mqtt.late]),
                  !.heartbeat_monitor_active = FALSE,
                  !.watchers[w].pc = "done",
                  !.op = [name |-> "callback"]]
    /\ UNCHANGED <<fsmVars, comm, ctl>>

\* MQTTManager.connect is called
ConnectStart ==
    /\ mqtt.connect = "idle"
    /\ mqtt' = [mqtt EXCEPT !.connect = "trying",
                            !.op = [name |-> "connect"]]
    /\ UNCHANGED <<fsmVars, comm, ctl>>

\* MQTTManager.connect: one turn of its loop.  When client.connect raises,
\* the loop goes on after 2 seconds; when it returns, the network loop is
\* started and connect() returns
ConnectAttempt(outcome) ==
    /\ mqtt.connect = "trying"
    /\ outcome # "ok" => mqtt.failures < MaxFailures
    /\ mqtt' = [mqtt EXCEPT
                  !.tries = Append(@, outcome),
                  !.connect = IF outcome = "ok" THEN "returned" ELSE @,
                  !.link = IF outcome = "ok" THEN "up" ELSE @,
                  !.failures = IF outcome = "ok" THEN 0 ELSE @ + 1,
                  !.op = [name |-> "attempt", outcome |-> outcome]]
    /\ UNCHANGED <<fsmVars, comm, ctl>>

\* the connection ends and the network loop calls on_disconnect(rc): rc is
\* 0 after MQTTManager.disconnect, another code when the broker is lost
OnDisconnectCalled(rc) ==
    /\ mqtt.link = "up"
    /\ mqtt.handler.pc \in {"idle", "done"}
    /\ mqtt' = [mqtt EXCEPT
                  !.link = "down",
                  !.handler = [pc |-> IF rc # 0 THEN "retrying" ELSE "done",
                               rc0 |-> rc, tries |-> <<>>],
                  !.op = [name |-> "on_disconnect", rc |-> rc]]
    /\ UNCHANGED <<fsmVars, comm, ctl>>

\* on_disconnect that makes a single attempt
ReconnectAttempt_mut(outcome) ==
    /\ mqtt.handler.pc = "retrying"
    /\ outcome # "ok" => mqtt.failures < MaxFailures
    /\ mqtt' = [mqtt EXCEPT
                  !.handler.tries = Append(@, outcome),
                  !.handler.pc = "done",
                  !.link = IF outcome = "ok" THEN "up" ELSE @,
                  !.failures = IF outcome = "ok" THEN 0 ELSE @ + 1,
                  !.op = [name |-> "reconnect", outcome |-> outcome]]
    /\ UNCHANGED <<fsmVars, comm, ctl>>

\* MQTTManager.on_disconnect: one turn of its loop.  When client.reconnect
\* raises, the loop goes on after 5 seconds; when it returns 0, the loop
\* ends
ReconnectAttempt(outcome) ==
    /\ mqtt.handler.pc = "retrying"
    /\ outcome # "ok" => mqtt.failures < MaxFailures
    /\ mqtt' = [mqtt EXCEPT
                  !.handler.tries = Append(@, outcome),
                  !.handler.pc = IF outcome = "ok" THEN "done" ELSE @,
                  !.link = IF outcome = "ok" THEN "up" ELSE @,
                  !.failures = IF outcome = "ok" THEN 0 ELSE @ + 1,
                  !.op = [name |-> "reconnect", outcome |-> outcome]]
    /\ UNCHANGED <<fsmVars, comm, ctl>>

InitMqtt ==
    /\ mqtt = NewMQTTManager
    /\ \E bias \in BiasTables : mgr = InitMgr(TRUE, TRUE, bias)
    /\ hw = [stop |-> "ok", run |-> "sync", rest |-> "ok", data |-> FALSE]
    /\ nsteps = 0
    /\ last = [op |-> "init"]
    /\ prev = mgr
    /\ cal = NoCal
    /\ comm = NewCommClient(0, "ok")
    /\ ctl = NewController("experiment_runner")

NextMqtt ==
    \/ \E timeout_seconds \in Timeouts :
          EnableHeartbeatMonitor(timeout_seconds)
    \/ ResetHeartbeatTimer
    \/ Tick
    \/ \E w \in 1..Len(mqtt.watchers) : WatcherPoll(w)
    \/ \E w \in 1..Len(mqtt.watchers) : WatcherTimeout(w)
    \/ ConnectStart
    \/ \E outcome \in Outcomes : ConnectAttempt(outcome)
    \/ \E rc \in {0, 1} : OnDisconnectCalled(rc)
    \/ \E outcome \in Outcomes : ReconnectAttempt(outcome)

\* one MQTTManager, the threads of its host, the broker and the clock
SpecMqtt == InitMqtt /\ [][NextMqtt]_vars

(***************************************************************************)
(* The controller: its handlers, its sweeper and its main thread           *)
(***************************************************************************)
\* registry.save_registry(), when the branch that calls it was taken
Saved(c, taken) ==
    IF taken THEN [c EXCEPT !.saved = SaveRegistry(c.nodes)] ELSE c

\* handle_discovery_response
HandleDiscoveryResponse(node_info) ==
    /\ ctl.events < MaxEvents
    /\ ctl' = Saved([ctl EXCEPT
                 !.nodes = AddOrUpdateNode(ctl.nodes, ctl.now,
                                           node_info.node_id,
                                           node_info.ip_address,
                                           node_info.role,
                                           node_info.capabilities),
                 !.events = @ + 1,
                 !.op = [name |-> "discovery", info |-> node_info,
                         was_offline |->
                            /\ node_info.node_id \in DOMAIN ctl.nodes
                            /\ ctl.nodes[node_info.node_id].status
                                  = "offline"]], TRUE)
    /\ UNCHANGED <<fsmVars, comm, mqtt>>

\* the main thread is inside wait_for_response(node_id)
Waiting(c, node_id) ==
    c.main.pc \in {"poll", "sleep"} /\ c.main.node = node_id

\* handle_command_response, of the script the controller runs
CommandResponse(c, response) ==
    IF c.script = "experiment_runner"
    THEN Saved([c EXCEPT
            !.nodes = RunnerResponse(c.nodes, response),
            !.pending =
               IF response.node_id \in DOMAIN c.pending
               THEN [@ EXCEPT ![response.node_id] = TRUE] ELSE @,
            !.main.flagged =
               IF Waiting(c, response.node_id)
               THEN Append(@, response.command) ELSE @,
            !.main.early =
               @ \/ (/\ c.main.pc = "sent"
                     /\ c.main.node = response.node_id),
            !.events = @ + 1,
            !.op = [name |-> "response", response |-> response]],
         response.node_id \in DOMAIN c.nodes)
    ELSE Saved([c EXCEPT
            !.nodes = DiscoveryResponse(c.nodes, response),
            !.events = @ + 1,
            !.op = [name |-> "response", response |-> response]],
         /\ response.node_id \in DOMAIN c.nodes
         /\ \/ /\ response.command = COMMAND_CALIBRATE
               /\ response.status = STATUS_SUCCESS
            \/ response.status = STATUS_ERROR)

\* the MQTT thread runs handle_command_response
HandleCommandResponse(response) ==
    /\ ctl.events < MaxEvents
    /\ ctl' = CommandResponse(ctl, response)
    /\ UNCHANGED <<fsmVars, comm, mqtt>>

\* one turn of the offline monitor thread
OfflineSweep ==
    /\ ctl' = Saved([ctl EXCEPT
                 !.nodes = CheckForOfflineNodes(ctl.nodes, ctl.now,
                                                NODE_TIMEOUT_SECONDS),
                 !.op = [name |-> "sweep"]], TRUE)
    /\ UNCHANGED <<fsmVars, comm, mqtt>>

\* a second passes
ClockTick ==
    /\ ctl.now < MaxClock
    /\ ctl' = [ctl EXCEPT !.now = @ + 1, !.op = [name |-> "tick"]]
    /\ UNCHANGED <<fsmVars, comm, mqtt>>

\* send_command
Sent(c, target_node_id, command_type) ==
    [c EXCEPT
       !.main.pc = IF c.script = "experiment_runner" THEN "sent" ELSE "idle",
       !.main.node = target_node_id,
       !.main.command = command_type,
       !.main.result = "none",
       !.main.flagged = <<>>,
       !.main.early = FALSE,
       !.sent = @ + 1,
       !.op = [name |-> "send", node_id |-> target_node_id,
               command |-> command_type]]

\* the main thread calls send_command
SendCommand(target_node_id, command_type) ==
    /\ ctl.main.pc = "idle"
    /\ ctl.run.pc = "boot"
    /\ ctl.sent < MaxCommands
    /\ ctl' = Sent(ctl, target_node_id, command_type)
    /\ UNCHANGED <<fsmVars, comm, mqtt>>

\* wait_for_response, up to its first poll
WaitStart(timeout) ==
    /\ ctl.main.pc = "sent"
    /\ ctl' = [ctl EXCEPT
                 !.pending = Store(@, ctl.main.node, FALSE),
                 !.main.pc = "poll",
                 !.main.timeout = timeout,
                 !.main.waited = 0,
                 !.main.result = "none",
                 !.main.flagged = <<>>,
                 !.op = [name |-> "wait", timeout |-> timeout]]
    /\ UNCHANGED <<fsmVars, comm, mqtt>>

\* wait_for_response: the test of the flag, and the return or the sleep
WaitPoll ==
    /\ ctl.main.pc = "poll"
    /\ ctl' = IF ctl.pending[ctl.main.node]
              THEN [ctl EXCEPT !.main.pc = "idle",
                               !.main.result = "True",
                               !.op = [name |-> "return"]]
              ELSE [ctl EXCEPT !.main.pc = "sleep",
                               !.op = [name |-> "poll"]]
    /\ UNCHANGED <<fsmVars, comm, mqtt>>

\* wait_for_response: the end of a sleep and the test of the loop
WaitWake ==
    /\ ctl.main.pc = "sleep"
    /\ ctl' = IF ctl.main.waited + 1 < ctl.main.timeout
              THEN [ctl EXCEPT !.main.pc = "poll",
                               !.main.waited = @ + 1,
                               !.op = [name |-> "wake"]]
              ELSE [ctl EXCEPT !.main.pc = "idle",
                               !.main.waited = @ + 1,
                               !.main.result = "False",
                               !.op = [name |-> "return"]]
    /\ UNCHANGED <<fsmVars, comm, mqtt>>

InitCtl ==
    /\ \E script \in Scripts : ctl = NewController(script)
    /\ \E bias \in BiasTables : mgr = InitMgr(TRUE, TRUE, bias)
    /\ hw = [stop |-> "ok", run |-> "sync", rest |-> "ok", data |-> FALSE]
    /\ nsteps = 0
    /\ last = [op |-> "init"]
    /\ prev = mgr
    /\ cal = NoCal
    /\ comm = NewCommClient(0, "ok")
    /\ mqtt = NewMQTTManager

NextCtl ==
    \/ \E node_info \in NodeInfos : HandleDiscoveryResponse(node_info)
    \/ \E response \in Responses : HandleCommandResponse(response)
    \/ OfflineSweep
    \/ ClockTick
    \/ \E n \in NodeIds, command \in {COMMAND_CALIBRATE, COMMAND_VALIDATE} :
          SendCommand(n, command)
    \/ \E timeout \in WaitTimeouts : WaitStart(timeout)
    \/ WaitPoll
    \/ WaitWake

\* one controller process: its MQTT thread, its sweeper, its main thread
SpecCtl == InitCtl /\ [][NextCtl]_vars

(***************************************************************************)
(* run_experiment                                                          *)
(***************************************************************************)
target_node == "test_node"

\* the commands of the four steps, in the order of run_experiment
Steps == <<COMMAND_CALIBRATE, COMMAND_VALIDATE, "run_force_test",
           "run_wave_test">>

\* what the abort message of each step names
StepNames == <<"calibration", "validation", "force test", "wave test">>

\* the responses on the response topic while the experiment runs
RunResponses ==
    [node_id : {target_node},
     command : {Steps[k] : k \in DOMAIN Steps},
     status : {STATUS_SUCCESS, STATUS_ERROR}]

\* log_event
LogEvent(c, event) == [c EXCEPT !.run.log = Append(@, event)]

\* __main__ calls run_experiment: the start line and step 1
RunExperiment ==
    /\ ctl.run.pc = "boot"
    /\ ctl.main.pc = "idle"
    /\ ctl' = [Sent(LogEvent(ctl, <<"start">>), target_node, Steps[1])
                 EXCEPT !.run.pc = "running", !.run.step = 1]
    /\ UNCHANGED <<fsmVars, comm, mqtt>>

\* run_experiment without its early returns
RunNextStep_mut ==
    /\ ctl.run.pc = "running"
    /\ ctl.main.pc = "idle"
    /\ ctl' =
          IF ctl.run.step = Len(Steps)
          THEN [LogEvent(ctl, <<"complete">>)
                  EXCEPT !.run.pc = "returned", !.op = [name |-> "complete"]]
          ELSE [Sent(ctl, target_node, Steps[ctl.run.step + 1])
                  EXCEPT !.run.step = @ + 1]
    /\ UNCHANGED <<fsmVars, comm, mqtt>>

\* run_experiment after wait_for_response has returned: abort, next step,
\* or the end of the sequence
RunNextStep ==
    /\ ctl.run.pc = "running"
    /\ ctl.main.pc = "idle"
    /\ ctl' =
          IF ctl.main.result # "True"
          THEN [LogEvent(ctl, <<"aborted", StepNames[ctl.run.step]>>)
                  EXCEPT !.run.pc = "returned", !.op = [name |-> "abort"]]
          ELSE IF ctl.run.step = Len(Steps)
          THEN [LogEvent(ctl, <<"complete">>)
                  EXCEPT !.run.pc = "returned", !.op = [name |-> "complete"]]
          ELSE [Sent(ctl, target_node, Steps[ctl.run.step + 1])
                  EXCEPT !.run.step = @ + 1]
    /\ UNCHANGED <<fsmVars, comm, mqtt>>

\* the MQTT thread runs handle_command_response, before, during and after
\* run_experiment
HandleRunResponse(response) ==
    /\ ctl.events < MaxReplies
    /\ ctl' = CommandResponse(ctl, response)
    /\ UNCHANGED <<fsmVars, comm, mqtt>>

InitRun ==
    /\ ctl = NewController("experiment_runner")
    /\ \E bias \in BiasTables : mgr = InitMgr(TRUE, TRUE, bias)
    /\ hw = [stop |-> "ok", run |-> "sync", rest |-> "ok", data |-> FALSE]
    /\ nsteps = 0
    /\ last = [op |-> "init"]
    /\ prev = mgr
    /\ cal = NoCal
    /\ comm = NewCommClient(0, "ok")
    /\ mqtt = NewMQTTManager

NextRun ==
    \/ RunExperiment
    \/ RunNextStep
    \/ \E timeout \in WaitTimeouts : WaitStart(timeout)
    \/ WaitPoll
    \/ WaitWake
    \/ \E response \in RunResponses : HandleRunResponse(response)
    \/ OfflineSweep
    \/ ClockTick

\* experiment_runner.py from its start to the idle loop after run_experiment
SpecRun == InitRun /\ [][NextRun]_vars

(***************************************************************************)
(* The controller is stopped and started again                             *)
(***************************************************************************)
\* a new process: NodeRegistry() loads the file the last one left
Restart ==
    /\ ctl.op.name # "restart"
    /\ ctl' = [NewController(ctl.script) EXCEPT
                 !.nodes = LoadRegistry(ctl.saved, ctl.now),
                 !.saved = ctl.saved,
                 !.now = ctl.now,
                 !.events = ctl.events,
                 !.op = [name |-> "restart"]]
    /\ UNCHANGED <<fsmVars, comm, mqtt>>

NextRestart ==
    \/ \E node_info \in NodeInfos : HandleDiscoveryResponse(node_info)
    \/ \E response \in Responses : HandleCommandResponse(response)
    \/ OfflineSweep
    \/ ClockTick
    \/ Restart

\* the registry over the runs of a controller
SpecRestart == InitCtl /\ [][NextRestart]_vars

(***************************************************************************)
(* check_for_offline_nodes statement by statement, next to the MQTT thread *)
(***************************************************************************)
\* current_time = time.time() and the iterator of self.nodes.items()
SweepBegin ==
    /\ ctl.sweep.pc = "sleeping"
    /\ ctl' = [ctl EXCEPT
                 !.sweep = [pc |-> "iterating", todo |-> DOMAIN ctl.nodes,
                            used |-> Cardinality(DOMAIN ctl.nodes),
                            current_time |-> ctl.now, node |-> "none"],
                 !.op = [name |-> "sweep begin"]]
    /\ UNCHANGED <<fsmVars, comm, mqtt>>

\* the test of the if statement, on node k
MustMark(c, k) ==
    /\ c.sweep.current_time - c.nodes[k].last_seen > NODE_TIMEOUT_SECONDS
    /\ c.nodes[k].status # "offline"

\* the next item of the iterator and the test of the if statement; the
\* iterator raises RuntimeError when the size of the dict has changed, and
\* nothing in monitor() catches it
SweepNext(k) ==
    /\ ctl.sweep.pc = "iterating"
    /\ k \in ctl.sweep.todo
    /\ ctl' = IF Cardinality(DOMAIN ctl.nodes) # ctl.sweep.used
              THEN [ctl EXCEPT !.sweep.pc = "raised",
                               !.op = [name |-> "sweep raised"]]
              ELSE [ctl EXCEPT
                      !.sweep.todo = @ \ {k},
                      !.sweep.node = k,
                      !.sweep.pc = IF MustMark(ctl, k)
                                   THEN "marking" ELSE "iterating",
                      !.op = [name |-> "sweep next"]]
    /\ UNCHANGED <<fsmVars, comm, mqtt>>

\* node.mark_offline()
SweepMark ==
    /\ ctl.sweep.pc = "marking"
    /\ ctl' = [ctl EXCEPT
                 !.nodes[ctl.sweep.node].status = "offline",
                 !.sweep.pc = "iterating",
                 !.op = [name |-> "sweep mark"]]
    /\ UNCHANGED <<fsmVars, comm, mqtt>>

\* the end of the iteration, self.save_registry() and time.sleep(1)
SweepEnd ==
    /\ ctl.sweep.pc = "iterating"
    /\ ctl.sweep.todo = {}
    /\ ctl' = IF Cardinality(DOMAIN ctl.nodes) # ctl.sweep.used
              THEN [ctl EXCEPT !.sweep.pc = "raised",
                               !.op = [name |-> "sweep raised"]]
              ELSE Saved([ctl EXCEPT !.sweep.pc = "sleeping",
                                     !.op = [name |-> "sweep"]], TRUE)
    /\ UNCHANGED <<fsmVars, comm, mqtt>>

NextSweep ==
    \/ \E node_info \in NodeInfos : HandleDiscoveryResponse(node_info)
    \/ ClockTick
    \/ SweepBegin
    \/ \E k \in NodeIds : SweepNext(k)
    \/ SweepMark
    \/ SweepEnd

\* the offline monitor thread and the discovery handler, with no lock
\* between them
SpecSweep == InitCtl /\ [][NextSweep]_vars

(***************************************************************************)
(* Vocabulary of the properties                                            *)
(***************************************************************************)
\* the transition table as section 4.2 of the specification prints it
SpecTable ==
    [s \in State |->
        CASE s = "BOOT" -> {"IDLE"}
          [] s = "IDLE" -> {"CALIBRATING", "TESTINGSENSOR", "CONFIGUREVALIDATE"}
          [] s = "CALIBRATING" -> {"CALIBRATING"}
          [] s = "TESTINGSENSOR" -> {"IDLE"}
          [] s = "CONFIGUREVALIDATE" -> {"CONFIGUREPENDING", "IDLE"}
          [] s = "CONFIGUREPENDING" -> {"TESTINGACTUATOR", "RUNNING"}
          [] s = "TESTINGACTUATOR" -> {"IDLE"}
          [] s = "RUNNING" -> {"POSTPROC"}
          [] s = "POSTPROC" -> {"DONE", "RUNNING"}
          [] s = "DONE" -> {"IDLE"}
          [] s = "ERROR" -> {"IDLE"}]

AllowedPair(s, t) == t \in SpecTable[s] \/ t \in {"IDLE", "ERROR"}

\* the states the last top-level call went through, in order
Appended == SubSeq(mgr.history, Len(prev.history) + 1, Len(mgr.history))

\* the last top-level call invoked the hook
Invoked(name) == \E i \in 1..Len(mgr.trace) : mgr.trace[i] = <<"hook", name>>

\* the last top-level call was handle_command with this dict
LastCommand(d) == last.op = "command" /\ last.input = Dict(d)

\* the last top-level call was handle_command with a command of this name
LastNamed(name) ==
    /\ last.op = "command"
    /\ last.input.type = "dict"
    /\ Has(last.input.val, "cmd")
    /\ last.input.val.cmd = name

\* the last top-level call was a direct transition(t)
LastRequest(t) == last.op = "transition" /\ last.target = t

\* the log records the last top-level call added
NewLog == SubSeq(mgr.fsm_log, Len(prev.fsm_log) + 1, Len(mgr.fsm_log))

(***************************************************************************)
(* C1.  transition(t) called in state s makes t the current state exactly  *)
(* when t is in the table row of s or t is IDLE or ERROR (otherwise the    *)
(* machine is forced into ERROR and t is never entered); every pair of     *)
(* consecutive entries of the state history, which starts at BOOT, is such *)
(* an allowed pair; and a call that records no transition leaves the state *)
(* variable as it was.                                                     *)
(***************************************************************************)
C1_TransitionTable ==
    /\ mgr.history[1] = "BOOT"
    /\ \A i \in 1..(Len(mgr.history) - 1) :
          AllowedPair(mgr.history[i], mgr.history[i + 1])
    /\ \A t \in State :
          LastRequest(t) =>
             IF AllowedPair(prev.state, t)
             THEN Appended # <<>> /\ Appended[1] = t
             ELSE Appended = <<"ERROR">> /\ mgr.state = "ERROR"
    /\ Appended = <<>> => mgr.state = prev.state

\* a request the table accepts has been made while the run was going on
C1_Witness ==
    /\ LastRequest("POSTPROC")
    /\ prev.state = "RUNNING"
    /\ Appended = <<"POSTPROC", "DONE", "IDLE">>

(***************************************************************************)
(* C2.  A transition request whose target is not in the table row of the   *)
(* current state (and is neither IDLE nor ERROR) ends with the machine in  *)
(* ERROR, the rejected target never entered, and no exception leaves       *)
(* transition.                                                             *)
(***************************************************************************)
C2_RejectedForcesError ==
    \A t \in State :
       (LastRequest(t) /\ ~AllowedPair(prev.state, t)) =>
          /\ mgr.state = "ERROR"
          /\ mgr.exc = "none"
          /\ Appended = <<"ERROR">>

\* a rejected request was made in a state that has an exit hook
C2_Witness ==
    /\ LastRequest("DONE")
    /\ prev.state = "RUNNING"
    /\ mgr.state = "ERROR"

(***************************************************************************)
(* C3.  handle_command given an input that is not a recognized command (an *)
(* unknown command name, a record without the command field, a string that *)
(* does not parse, a string that parses to something else than a record)   *)
(* leaves the state, the state history, the stored command and the stored  *)
(* experiment spec unchanged, in every state, and records exactly one log  *)
(* record, of level ERROR.                                                 *)
(***************************************************************************)
C3_UnrecognizedFrame ==
    (last.op = "command" /\ last.input \in UnrecognizedInputs) =>
       /\ mgr.state = prev.state
       /\ mgr.history = prev.history
       /\ mgr.cmd = prev.cmd
       /\ mgr.experiment_spec = prev.experiment_spec
       /\ Len(NewLog) = 1
       /\ NewLog[1].level = "ERROR"
       /\ mgr.exc = "none"

\* an unknown command arrived in the middle of a calibration
C3_Witness ==
    /\ last.op = "command"
    /\ last.input = Dict([cmd |-> "UnknownCommand"])
    /\ prev.state = "CALIBRATING"
    /\ prev.cmd # None
    /\ Len(NewLog) = 1

(***************************************************************************)
(* C4.  A RunValid command handled in CONFIGUREPENDING enters RUNNING and  *)
(* invokes the run hook; handled in any other state it ends in ERROR, the  *)
(* machine never enters RUNNING and the run hook is not invoked.           *)
(***************************************************************************)
C4_RunValidGate ==
    LastNamed("RunValid") =>
       IF prev.state = "CONFIGUREPENDING"
       THEN Appended # <<>> /\ Appended[1] = "RUNNING" /\ Invoked("handle_run")
       ELSE /\ mgr.state = "ERROR"
            /\ ~Invoked("handle_run")
            /\ \A i \in 1..Len(Appended) : Appended[i] # "RUNNING"

\* a second RunValid arrived while the run started by the first went on
C4_Witness ==
    /\ LastNamed("RunValid")
    /\ prev.state = "RUNNING"
    /\ mgr.state = "ERROR"

(***************************************************************************)
(* C5.  In IDLE, a Run command whose parameters configure_hardware accepts *)
(* leaves the machine in CONFIGUREPENDING; the RunValid that follows, with *)
(* a run hook that reports completion by requesting POSTPROC, takes the    *)
(* machine through RUNNING, POSTPROC, DONE and IDLE, in that order and     *)
(* nothing else, within the handling of that one command.                  *)
(***************************************************************************)
RunGood == [cmd |-> "Run", params |-> GoodExp]

C5_RunThenRunValid ==
    /\ (LastCommand(RunGood) /\ prev.state = "IDLE") =>
          /\ mgr.state = "CONFIGUREPENDING"
          /\ Appended = <<"CONFIGUREVALIDATE", "CONFIGUREPENDING">>
    /\ (/\ LastNamed("RunValid")
        /\ prev.state = "CONFIGUREPENDING"
        /\ prev.experiment_spec = RunGood
        /\ hw.run = "sync") =>
          /\ Appended = <<"RUNNING", "POSTPROC", "DONE", "IDLE">>
          /\ mgr.state = "IDLE"
          /\ mgr.exc = "none"

\* the RunValid that follows the accepted Run has been handled
C5_Witness ==
    /\ LastNamed("RunValid")
    /\ prev.cmd = RunGood
    /\ prev.state = "CONFIGUREPENDING"
    /\ hw.run = "sync"
    /\ mgr.state = "IDLE"

(***************************************************************************)
(* C6.  An Abort command handled in any state other than IDLE and ERROR    *)
(* ends with the machine in ERROR, also when the hardware-stop hook fails, *)
(* and the abort status record is published on the status topic before the *)
(* hardware-stop hook is invoked.                                          *)
(***************************************************************************)
AbortPublishedFirst ==
    \E i \in 1..Len(mgr.trace) :
       /\ mgr.trace[i] = <<"publish", "status", "ABORT">>
       /\ \A j \in 1..(i - 1) : mgr.trace[j] # <<"hook", "stop_hardware">>

C6_AbortReachesError ==
    (LastNamed("Abort") /\ prev.state \notin {"IDLE", "ERROR"}) =>
       /\ mgr.state = "ERROR"
       /\ AbortPublishedFirst

(***************************************************************************)
(* C7.  On a node without sensor capability a Calibrate command, and a     *)
(* Test command with target sensor, end in ERROR and invoke neither the    *)
(* calibrate nor the test hook; on a node without actuator capability a    *)
(* TestValid command handled in CONFIGUREPENDING ends in ERROR and does    *)
(* not invoke the test hook; no exception leaves handle_command.           *)
(***************************************************************************)
TestSensor == [cmd |-> "Test", params |-> [target |-> "sensor"]]

C7_CapabilityGate ==
    /\ (~prev.has_sensor /\ LastNamed("Calibrate")) =>
          /\ mgr.state = "ERROR"
          /\ ~Invoked("handle_calibrate")
          /\ mgr.exc = "none"
    /\ (~prev.has_sensor /\ LastCommand(TestSensor)) =>
          /\ mgr.state = "ERROR"
          /\ ~Invoked("handle_test")
          /\ mgr.exc = "none"
    /\ (/\ ~prev.has_actuator
        /\ LastNamed("TestValid")
        /\ prev.state = "CONFIGUREPENDING") =>
          /\ mgr.state = "ERROR"
          /\ ~Invoked("handle_test")
          /\ mgr.exc = "none"

\* the entry handler of CALIBRATING refused a node that has no sensor
C7_Witness ==
    /\ ~prev.has_sensor
    /\ LastNamed("Calibrate")
    /\ prev.state = "IDLE"
    /\ Appended = <<"CALIBRATING", "ERROR">>

(***************************************************************************)
(* C8.  A Reset command, handled in any state, ends with the machine in    *)
(* IDLE: in ERROR however it was reached, in IDLE itself, and in the       *)
(* middle of a calibration, a test or a run.                               *)
(***************************************************************************)
ResetInputs == {Dict([cmd |-> "Reset"]), Str("{\"cmd\": \"Reset\"}")}

C8_ResetReachesIdle ==
    (last.op = "command" /\ last.input \in ResetInputs) =>
       /\ mgr.state = "IDLE"
       /\ mgr.exc = "none"

\* a Reset recovered the machine from the ERROR a capability failure forced
C8_Witness ==
    /\ last.op = "command"
    /\ last.input \in ResetInputs
    /\ prev.state = "ERROR"
    /\ Len(prev.history) >= 2
    /\ prev.history[Len(prev.history) - 1] = "CALIBRATING"
    /\ ~prev.has_sensor
    /\ mgr.state = "IDLE"

(***************************************************************************)
(* C9.  On a sensor node in IDLE, after k Calibrate step commands with     *)
(* heights h1..hk followed by Calibrate{finished}: if k >= 1 every entry   *)
(* of the bias table is its value before the first step plus the           *)
(* arithmetic mean of h1..hk, if k = 0 the bias table is unchanged; in     *)
(* both cases the sample buffer is empty and the machine is in IDLE.       *)
(***************************************************************************)
\* x = x0 + total / k, on exact rationals, without computing the quotient
IsSumWithMean(x, x0, total, k) ==
    x.n * (x0.d * k) = (x0.n * k + total * x0.d) * x.d

C9_CalibrationMean ==
    (cal.phase = "finished" /\ cal.from = "IDLE" /\ mgr.has_sensor) =>
       /\ mgr.state = "IDLE"
       /\ mgr.height_log = <<>>
       /\ DOMAIN mgr.bias_table = DOMAIN cal.bias0
       /\ \A key \in DOMAIN cal.bias0 :
             IF cal.hs = <<>>
             THEN mgr.bias_table[key] = cal.bias0[key]
             ELSE IsSumWithMean(mgr.bias_table[key], cal.bias0[key],
                                SeqSum(cal.hs), Len(cal.hs))

\* the same, for a calibration that starts with an empty sample buffer
C9_FreshCalibration ==
    (/\ cal.phase = "finished" /\ cal.from = "IDLE" /\ mgr.has_sensor
     /\ cal.buf0 = <<>>) =>
       /\ mgr.state = "IDLE"
       /\ mgr.height_log = <<>>
       /\ \A key \in DOMAIN cal.bias0 :
             IF cal.hs = <<>>
             THEN mgr.bias_table[key] = cal.bias0[key]
             ELSE IsSumWithMean(mgr.bias_table[key], cal.bias0[key],
                                SeqSum(cal.hs), Len(cal.hs))

(***************************************************************************)
(* C10.  Validation of a list of sub-experiments is all-or-nothing.  After *)
(* a Run command that carries a non-empty list, the machine is in          *)
(* CONFIGUREPENDING only if configure_hardware accepted every member of    *)
(* the list, and then experiment index 0 is staged; handled in IDLE with a *)
(* list that has a rejected member, the command returns the machine to     *)
(* IDLE without entering RUNNING or invoking the run hook; and the run     *)
(* hook is never invoked while the stored list has a rejected member.      *)
(***************************************************************************)
RunList(l) == [cmd |-> "Run", params |-> [experiments |-> l]]

\* the parameter sets configure_hardware accepts: positive amplitude, a wave
Accepted(e) ==
    /\ "amplitude" \in DOMAIN e
    /\ "waveType" \in DOMAIN e
    /\ e.amplitude >= 1

AllAccepted(l) == \A i \in 1..Len(l) : Accepted(l[i])

C10_AllOrNothing ==
    /\ \A l \in ExpLists :
          LastCommand(RunList(l)) =>
             /\ mgr.state = "CONFIGUREPENDING" =>
                   AllAccepted(l) /\ mgr.current_experiment_index = 0
             /\ (prev.state = "IDLE" /\ ~AllAccepted(l)) =>
                   /\ mgr.state = "IDLE"
                   /\ Appended = <<"CONFIGUREVALIDATE", "IDLE">>
                   /\ ~Invoked("handle_run")
             /\ (prev.state = "IDLE" /\ AllAccepted(l)) =>
                   mgr.state = "CONFIGUREPENDING"
    /\ \A l \in ExpLists :
          (Invoked("handle_run") /\ mgr.experiment_spec = RunList(l)) =>
             AllAccepted(l)

\* a list whose second member is rejected was validated and dropped
C10_Witness ==
    /\ LastCommand(RunList(<<GoodExp, BadAmpExp>>))
    /\ prev.state = "IDLE"
    /\ mgr.state = "IDLE"
    /\ Appended = <<"CONFIGUREVALIDATE", "IDLE">>

(***************************************************************************)
(* C11.  In CONFIGUREPENDING with a staged list of N >= 1 sub-experiments  *)
(* that were all accepted, and a run hook that reports completion by       *)
(* requesting POSTPROC, one RunValid command enters RUNNING exactly N      *)
(* times, with the experiment index 0, 1, ..., N-1 in this order and each  *)
(* inside the list, each RUNNING followed by POSTPROC, then DONE and IDLE, *)
(* and the command returns with the machine in IDLE.                       *)
(***************************************************************************)
\* the indices 0, 1, ..., n-1
IndicesUpTo(n) == [i \in 1..n |-> i - 1]

\* RUNNING, POSTPROC repeated n times, then DONE, IDLE
RunPath(n) ==
    [i \in 1..(2 * n + 2) |->
        IF i = 2 * n + 1 THEN "DONE"
        ELSE IF i = 2 * n + 2 THEN "IDLE"
        ELSE IF i % 2 = 1 THEN "RUNNING" ELSE "POSTPROC"]

C11_MultiExperimentRun ==
    \A l \in ExpLists :
       (/\ LastNamed("RunValid")
        /\ prev.state = "CONFIGUREPENDING"
        /\ prev.experiment_spec = RunList(l)
        /\ AllAccepted(l)
        /\ hw.run = "sync") =>
          /\ mgr.runs = IndicesUpTo(Len(l))
          /\ \A i \in 1..Len(mgr.runs) :
                mgr.runs[i] >= 0 /\ mgr.runs[i] < Len(l)
          /\ Appended = RunPath(Len(l))
          /\ mgr.state = "IDLE"
          /\ mgr.exc = "none"

\* a list of the greatest length the model feeds in has been run
C11_Witness ==
    /\ LastNamed("RunValid")
    /\ prev.state = "CONFIGUREPENDING"
    /\ prev.experiment_spec = RunList([i \in 1..MaxExps |-> GoodExp])
    /\ hw.run = "sync"
    /\ Len(mgr.runs) = MaxExps
    /\ mgr.state = "IDLE"

(***************************************************************************)
(* C12.  handle_command never propagates an exception, in any state and    *)
(* for any command, also when a hardware hook or an entry handler raises   *)
(* (whatever the type of the exception); and a call during which a hook or *)
(* an entry handler raised ends with the machine in ERROR.                 *)
(***************************************************************************)
\* something was raised during the last top-level call
Raised == \E i \in 1..Len(mgr.trace) : mgr.trace[i][1] = "raise"

C12_NeverCrashes ==
    last.op = "command" =>
       /\ mgr.exc = "none"
       /\ Raised => mgr.state = "ERROR"

\* the same, on hardware whose hooks return normally: what is raised then
\* comes from the capability checks and from the calibrate hook
C12_EntryFailuresHandled ==
    (last.op = "command" /\ hw.stop = "ok") =>
       /\ mgr.exc = "none"
       /\ Raised => mgr.state = "ERROR"

(***************************************************************************)
(* C13.  Every transition that leaves RUNNING, CALIBRATING or              *)
(* TESTINGSENSOR, whatever its target (a forced ERROR included), invokes   *)
(* the hardware-stop hook before the state variable takes its new value.   *)
(***************************************************************************)
\* the i-th event of the last call is a state change that leaves s
Leaves(i, s) == mgr.trace[i][1] = "state" /\ mgr.trace[i][2] = s

\* the event right before the i-th is an invocation of the stop hook
StoppedBefore(i) == i > 1 /\ mgr.trace[i - 1] = <<"hook", "stop_hardware">>

C13_ExitStopsHardware ==
    \A i \in 1..Len(mgr.trace) :
       (\E s \in {"RUNNING", "CALIBRATING", "TESTINGSENSOR"} : Leaves(i, s))
          => StoppedBefore(i)

\* the same for the two states whose exit handler calls the stop hook
C13_RunAndTestExitStop ==
    \A i \in 1..Len(mgr.trace) :
       (\E s \in {"RUNNING", "TESTINGSENSOR"} : Leaves(i, s))
          => StoppedBefore(i)

(***************************************************************************)
(* C14.  A failure of the REST send is never fatal.  Whenever DONE, or     *)
(* POSTPROC between two sub-experiments, hands buffered data to            *)
(* rest.send_data and the send raises or returns an error result, an ERROR *)
(* record is logged, nothing is raised, and the next state the machine     *)
(* takes is the one it takes after a successful send: IDLE after DONE,     *)
(* RUNNING after POSTPROC.                                                 *)
(***************************************************************************)
IsSend(i) == mgr.trace[i] = <<"hook", "rest.send_data">>

IsChange(i) == mgr.trace[i][1] = "state"

\* the state the machine is in at event i, and the state it takes next
StateAt(i) ==
    LET h == CHOOSE h \in 1..(i - 1) :
                /\ IsChange(h)
                /\ \A k \in (h + 1)..(i - 1) : ~IsChange(k)
    IN mgr.trace[h][3]

ChangesNextTo(i, t) ==
    \E j \in (i + 1)..Len(mgr.trace) :
       /\ mgr.trace[j] = <<"state", StateAt(i), t>>
       /\ \A k \in (i + 1)..(j - 1) :
             ~IsChange(k) /\ mgr.trace[k][1] # "raise"

C14_RestFailureNotFatal ==
    \A i \in 1..Len(mgr.trace) :
       IsSend(i) =>
          /\ \E h \in 1..(i - 1) : IsChange(h)
          /\ StateAt(i) \in {"DONE", "POSTPROC"}
          /\ hw.rest # "ok" => mgr.trace[i + 1] = <<"publish", "log", "ERROR">>
          /\ hw.rest = "ok" => mgr.trace[i + 1] = <<"publish", "log", "INFO">>
          /\ ChangesNextTo(i, IF StateAt(i) = "DONE" THEN "IDLE" ELSE "RUNNING")
          /\ mgr.exc = "none"

\* one command ran two sub-experiments while every send raised
C14_Witness ==
    /\ hw.rest = "raise"
    /\ mgr.state = "IDLE"
    /\ \E i, j \in 1..Len(mgr.trace) :
          /\ IsSend(i) /\ StateAt(i) = "POSTPROC"
          /\ IsSend(j) /\ StateAt(j) = "DONE"

(***************************************************************************)
(* C15.  Under every interleaving of connect(), disconnect() and the       *)
(* broker callbacks, a confirmation that arrives after connect() timed out *)
(* included, the session is never flagged connected while it holds no      *)
(* client, and no second connection to the broker is open while one is     *)
(* open already.                                                           *)
(***************************************************************************)
\* the clients whose connection to the broker is open
OpenClients == {k \in 1..Len(comm.clients) : comm.clients[k].open}

C15_ConnectionStateGuarded ==
    /\ comm.connected => comm.mqtt_client # 0
    /\ Cardinality(OpenClients) <= 1

\* the two halves, each on its own
C15_FlaggedOnlyWithClient == comm.connected => comm.mqtt_client # 0

C15_OneOpenConnection == Cardinality(OpenClients) <= 1

(***************************************************************************)
(* C16.  connect() called on a session that is connected is a no-op: it    *)
(* returns without an exception, opens no connection to the broker, starts *)
(* no network loop and no heartbeat thread, and leaves the connection      *)
(* flag, the client and the subscription list as they were.                *)
(***************************************************************************)
\* everything of the session but the bookkeeping of the calls made
SessionOf(c) ==
    [connected |-> c.connected, mqtt_client |-> c.mqtt_client,
     lock |-> c.lock, heartbeat_timer |-> c.heartbeat_timer,
     stop_event |-> c.stop_event, subscriptions |-> c.subscriptions,
     message_log |-> c.message_log, clients |-> c.clients,
     timers |-> c.timers, pc |-> c.pc, out |-> c.out]

C16_ConnectIdempotent ==
    [][(/\ comm'.calls = comm.calls + 1
        /\ comm'.op.name = "connect"
        /\ comm.connected) =>
          /\ SessionOf(comm') = SessionOf(comm)
          /\ comm'.op.result = "ok"]_vars

\* connect() has been called on a connected session that publishes
\* heartbeats
C16_Witness ==
    /\ comm.op.name = "connect"
    /\ comm.op.found
    /\ comm.connected
    /\ comm.mqtt_client = 1
    /\ comm.heartbeat_interval > 0
    /\ comm.timers = <<TRUE>>

(***************************************************************************)
(* C17.  connect() fails with a connection error when the timeout elapses  *)
(* without a confirmation, and when it has failed this way the session is  *)
(* not connected, holds no client, and has left no network loop and no     *)
(* heartbeat thread running.                                               *)
(***************************************************************************)
\* the clients whose network loop thread runs, the heartbeat threads alive
LoopsRunning == {k \in 1..Len(comm.clients) : comm.clients[k].loop}

TimersAlive == {h \in 1..Len(comm.timers) : comm.timers[h]}

\* connect() has just failed on its timeout
TimedOut == comm.op.name = "connect" /\ comm.op.result = "ConnectionError"

C17_TimeoutLeavesNothing ==
    TimedOut =>
       /\ ~comm.connected
       /\ comm.mqtt_client = 0
       /\ LoopsRunning = {}
       /\ TimersAlive = {}

\* what does hold after the timeout: no flag, no client, the lock released
C17_TimeoutResetsSession ==
    TimedOut =>
       /\ ~comm.connected
       /\ comm.mqtt_client = 0
       /\ comm.lock = "free"
       /\ comm.pc[comm.op.by] = "idle"

(***************************************************************************)
(* C18.  When disconnect() has returned, whatever the session was before   *)
(* (connected, never connected, dropped by the broker), the session is not *)
(* connected, no heartbeat thread runs, and no network loop runs and no    *)
(* connection to the broker is open; disconnect() never raises.            *)
(***************************************************************************)
\* disconnect() has just returned
Disconnected == comm.op.name = "disconnect"

C18_DisconnectClosesAll ==
    Disconnected =>
       /\ comm.op.result = "ok"
       /\ ~comm.connected
       /\ TimersAlive = {}
       /\ LoopsRunning = {}
       /\ OpenClients = {}

\* what does hold: no exception, no flag, no client, and the client the
\* session held is closed
C18_DisconnectResetsSession ==
    Disconnected =>
       /\ comm.op.result = "ok"
       /\ ~comm.connected
       /\ comm.op.found => comm.mqtt_client = 0

\* disconnect() on a session that is not flagged connected changes nothing
C18_DisconnectIdempotent ==
    [][(/\ comm'.calls = comm.calls + 1
        /\ comm'.op.name = "disconnect"
        /\ ~comm.connected) => SessionOf(comm') = SessionOf(comm)]_vars

\* disconnect() returned on a session the broker had dropped after a
\* successful connect(): the loop of its client still runs
C18_DroppedSession ==
    /\ Disconnected
    /\ ~comm.op.found
    /\ Len(comm.clients) = 1
    /\ comm.clients[1].subs # {}
    /\ comm.clients[1].loop

(***************************************************************************)
(* C19.  With heartbeatInterval > 0, a tick of the heartbeat thread while  *)
(* the session is disconnected publishes nothing and does not end the      *)
(* thread, so that a later tick on a connected session publishes again; a  *)
(* tick while the session is connected publishes exactly one liveness      *)
(* record, on the status topic of the node.                                *)
(***************************************************************************)
\* a heartbeat thread that was not told to stop has just made a round
Ticked == comm.op.name = "tick" /\ ~comm.op.stopped

C19_SkippedTickNotFatal ==
    (Ticked /\ comm.heartbeat_interval > 0) =>
       IF comm.op.found
       THEN /\ comm.op.sent = 1
            /\ comm.out[Len(comm.out)] = <<StatusTopic, "heartbeat">>
            /\ comm.timers[comm.op.timer]
       ELSE /\ comm.op.sent = 0
            /\ comm.timers[comm.op.timer]

\* what does hold: a tick publishes at most one record, on the status
\* topic, and none while the session is disconnected
C19_TickPublishesAtMostOnce ==
    Ticked =>
       /\ comm.op.sent \in {0, 1}
       /\ comm.op.sent = 1 =>
             /\ comm.op.found
             /\ comm.out[Len(comm.out)] = <<StatusTopic, "heartbeat">>
       /\ ~comm.op.found => comm.op.sent = 0

(***************************************************************************)
(* C20.  The message log is a ring buffer of capacity 1000 that records    *)
(* every message received and every message published: after n of them it  *)
(* holds the most recent min(n, 1000), in order, and never more than 1000. *)
(***************************************************************************)
Min(a, b) == IF a < b THEN a ELSE b

\* the last n items of a sequence
LastN(seq, n) == SubSeq(seq, Len(seq) - n + 1, Len(seq))

\* the log without its timestamps
LogPairs ==
    [i \in 1..Len(comm.message_log) |->
        <<comm.message_log[i].topic, comm.message_log[i].message>>]

C20_LogRecordsAllTraffic ==
    /\ Len(comm.message_log) <= LogCapacity
    /\ LogPairs = LastN(comm.traffic, Min(Len(comm.traffic), LogCapacity))

\* what does hold: the log records the messages received that are not empty
Received(entry) == entry[1] = CmdTopic /\ entry[2] # ""

C20_LogRecordsReceived ==
    LET received == SelectSeq(comm.traffic, Received)
    IN /\ Len(comm.message_log) <= LogCapacity
       /\ LogPairs = LastN(received, Min(Len(received), LogCapacity))

(***************************************************************************)
(* C21.  Every message delivered to handle_message is appended to the log, *)
(* the configured callback is invoked exactly once with it, and            *)
(* handle_message returns without raising, also when the callback raises.  *)
(***************************************************************************)
\* a step of handle_message
MessageStep ==
    /\ comm'.op.name = "message"
    /\ Len(comm'.traffic) = Len(comm.traffic) + 1

\* what handle_message does to a message it handles in full
Handled ==
    /\ comm'.op.result = "ok"
    /\ comm'.message_log =
          Append(comm.message_log,
                 [topic |-> CmdTopic, message |-> comm'.op.message])
    /\ comm'.delivered = comm.delivered + 1

C21_EveryMessageHandled == [][MessageStep => Handled]_vars

\* what does hold: a message that is not empty is handled in full, whether
\* the callback returns or raises
C21_NonEmptyMessageHandled ==
    [][MessageStep /\ comm'.op.message # "" => Handled]_vars

\* a message was handled by a session whose callback raises
C21_CallbackRaised ==
    /\ comm.op.name = "message"
    /\ comm.op.result = "ok"
    /\ comm.on_message_callback = "raises"
    /\ comm.delivered = 1
    /\ Len(comm.message_log) = 1

(***************************************************************************)
(* C22.  After enable_heartbeat_monitor(timeout) the timeout callback is   *)
(* invoked only when the time since the last reset exceeds the timeout, it *)
(* is invoked once, and monitoring then stops: later resets do not re-arm  *)
(* it and no second callback occurs; as long as resets keep arriving less  *)
(* than the timeout apart, the callback is never invoked.                  *)
(***************************************************************************)
\* each call of enable_heartbeat_monitor starts one watcher, and a watcher
\* ends with at most one callback
OncePerEnable == Len(mqtt.callbacks) + Cardinality(Alive(mqtt)) <= mqtt.enables

\* monitoring has stopped: the flag is cleared and no watcher is left
Stopped == ~mqtt.heartbeat_monitor_active /\ Alive(mqtt) = {}

C22_TimeoutOnceThenStops ==
    /\ \A i \in 1..Len(mqtt.callbacks) :
          mqtt.callbacks[i].elapsed > mqtt.callbacks[i].limit
    /\ \A i \in 1..Len(mqtt.callbacks) : mqtt.callbacks[i].late
    /\ OncePerEnable
    /\ Len(mqtt.callbacks) = mqtt.enables /\ mqtt.enables > 0 => Stopped

\* after the only callback the timer was reset, and the time since that
\* reset exceeds the timeout again
C22_Witness ==
    /\ mqtt.enables = 1
    /\ Len(mqtt.callbacks) = 1
    /\ mqtt.last_heartbeat_time > mqtt.callbacks[1].at
    /\ mqtt.now - mqtt.last_heartbeat_time > mqtt.heartbeat_timeout
    /\ Stopped

(***************************************************************************)
(* C23.  MQTTManager.connect() keeps retrying and returns only after a     *)
(* connection attempt succeeded, never raising on a failure; after an      *)
(* unexpected disconnection (code other than 0) reconnection attempts are  *)
(* repeated until one succeeds; an intentional disconnection (code 0)      *)
(* triggers no reconnection attempt.                                       *)
(***************************************************************************)
\* no attempt of the sequence succeeded
AllFailed(tries) == \A i \in 1..Len(tries) : tries[i] # "ok"

\* the last attempt of the sequence succeeded, and none before it
EndsWithFirstSuccess(tries) ==
    /\ tries # <<>>
    /\ tries[Len(tries)] = "ok"
    /\ AllFailed(SubSeq(tries, 1, Len(tries) - 1))

C23_ReconnectionPolicy ==
    /\ mqtt.connect = "idle" => mqtt.tries = <<>>
    /\ mqtt.connect = "trying" => AllFailed(mqtt.tries)
    /\ mqtt.connect = "returned" => EndsWithFirstSuccess(mqtt.tries)
    /\ mqtt.handler.rc0 = 0 =>
          mqtt.handler.tries = <<>> /\ mqtt.handler.pc # "retrying"
    /\ mqtt.handler.pc = "retrying" => AllFailed(mqtt.handler.tries)
    /\ mqtt.handler.pc = "done" /\ mqtt.handler.rc0 # 0 =>
          EndsWithFirstSuccess(mqtt.handler.tries)

\* connect() returned after a failed attempt, and the handler of a lost
\* connection ended after a failed attempt
C23_Witness ==
    /\ mqtt.connect = "returned"
    /\ Len(mqtt.tries) >= 2
    /\ mqtt.handler.pc = "done"
    /\ mqtt.handler.rc0 # 0
    /\ Len(mqtt.handler.tries) >= 2

\* an intentional disconnection was handled
C23_Intentional ==
    /\ mqtt.op.name = "on_disconnect"
    /\ mqtt.op.rc = 0
    /\ mqtt.handler.pc = "done"

(***************************************************************************)
(* C24.  NodeRegistry.add_or_update_node on an id not in the registry      *)
(* creates exactly one entry for it, with status online; called for an id  *)
(* whose entry is offline it sets the status back to online; it never      *)
(* creates a second entry for an id already present.  The registry is a    *)
(* dict keyed by node id: the ids after the call are the ids before it and *)
(* the id of the call, the entry under an id carries that id, and the      *)
(* entries of the other ids are the ones they were.                        *)
(***************************************************************************)
\* a step of handle_discovery_response
DiscoveryStep ==
    /\ ctl'.events = ctl.events + 1
    /\ ctl'.op.name = "discovery"

Upserted(id) ==
    /\ DOMAIN ctl'.nodes = DOMAIN ctl.nodes \cup {id}
    /\ ctl'.nodes[id].node_id = id
    /\ \A k \in DOMAIN ctl.nodes \ {id} : ctl'.nodes[k] = ctl.nodes[k]
    /\ id \notin DOMAIN ctl.nodes => ctl'.nodes[id].status = "online"
    /\ id \in DOMAIN ctl.nodes =>
          ctl'.nodes[id].status =
             IF ctl.nodes[id].status = "offline" THEN "online"
             ELSE ctl.nodes[id].status

C24_AddOrUpdateNode ==
    [][DiscoveryStep => Upserted(ctl'.op.info.node_id)]_vars

\* a node the sweep had marked offline was seen again and is online
C24_Witness ==
    /\ ctl.op.name = "discovery"
    /\ ctl.op.was_offline
    /\ ctl.nodes[ctl.op.info.node_id].status = "online"
    /\ ctl.nodes[ctl.op.info.node_id].last_seen = ctl.now

(***************************************************************************)
(* C25.  NodeRegistry.add_or_update_node on an already-known id sets the   *)
(* entry's address, role and capability set to the values supplied in the  *)
(* call, for every supplied capability set, the empty one included, and    *)
(* advances last_seen, leaving the entry's history unchanged.              *)
(***************************************************************************)
\* a step of handle_discovery_response for a node the registry knows
KnownDiscoveryStep ==
    /\ DiscoveryStep
    /\ ctl'.op.info.node_id \in DOMAIN ctl.nodes

\* the entry after the call, but for its capabilities
UpdatedInPlace(old, new, info) ==
    /\ new.ip_address = info.ip_address
    /\ new.role = info.role
    /\ new.last_seen = ctl.now
    /\ new.last_seen >= old.last_seen
    /\ new.history = old.history

C25_UpdateSetsSuppliedValues ==
    [][KnownDiscoveryStep =>
         /\ UpdatedInPlace(ctl.nodes[ctl'.op.info.node_id],
                           ctl'.nodes[ctl'.op.info.node_id], ctl'.op.info)
         /\ ctl'.nodes[ctl'.op.info.node_id].capabilities
               = ctl'.op.info.capabilities]_vars

\* what holds: a supplied capability list that is not empty replaces the
\* stored one, an empty one leaves the stored one in place
C25_EmptyCapabilitiesKeepOld ==
    [][KnownDiscoveryStep =>
         /\ UpdatedInPlace(ctl.nodes[ctl'.op.info.node_id],
                           ctl'.nodes[ctl'.op.info.node_id], ctl'.op.info)
         /\ ctl'.nodes[ctl'.op.info.node_id].capabilities
               = IF ctl'.op.info.capabilities = <<>>
                 THEN ctl.nodes[ctl'.op.info.node_id].capabilities
                 ELSE ctl'.op.info.capabilities]_vars

\* a node announced itself with no capabilities and the registry still
\* lists the ones it had
C25_StaleCapabilities ==
    /\ ctl.op.name = "discovery"
    /\ ctl.op.info.capabilities = <<>>
    /\ ctl.nodes[ctl.op.info.node_id].capabilities # <<>>

(***************************************************************************)
(* C26.  Offline sweep: check_for_offline_nodes marks offline exactly      *)
(* those nodes whose last_seen is older than the timeout and that are not  *)
(* already offline, and running it again without intervening events        *)
(* changes nothing; once marked offline, a node's status remains offline   *)
(* under every sequence of sweeps and command-response handling until      *)
(* add_or_update_node is called for that node.                             *)
(***************************************************************************)
\* a step of the offline monitor
SweepStep == ctl'.op.name = "sweep"

\* a step that calls add_or_update_node for node k
SeenAgain(k) == DiscoveryStep /\ ctl'.op.info.node_id = k

Overdue(node) == ctl.now - node.last_seen > NODE_TIMEOUT_SECONDS

C26_OfflineUntilSeenAgain ==
    [][\A k \in DOMAIN ctl.nodes :
          ctl.nodes[k].status = "offline" /\ ~SeenAgain(k)
             => ctl'.nodes[k].status = "offline"]_vars

\* what holds: the sweep marks exactly the overdue nodes, touches nothing
\* else, and a second sweep at the same time finds nothing to do
C26_SweepMarksExactlyOverdue ==
    [][SweepStep =>
         /\ DOMAIN ctl'.nodes = DOMAIN ctl.nodes
         /\ \A k \in DOMAIN ctl.nodes :
               ctl'.nodes[k] =
                  IF Overdue(ctl.nodes[k])
                  THEN [ctl.nodes[k] EXCEPT !.status = "offline"]
                  ELSE ctl.nodes[k]
         /\ CheckForOfflineNodes(ctl'.nodes, ctl'.now, NODE_TIMEOUT_SECONDS)
               = ctl'.nodes]_vars

\* a sweep has just marked a node offline
C26_Swept ==
    /\ ctl.op.name = "sweep"
    /\ \E k \in DOMAIN ctl.nodes :
          ctl.nodes[k].status = "offline"
             /\ ctl.nodes[k].last_seen + NODE_TIMEOUT_SECONDS < ctl.now

\* a node that is overdue, and was marked offline, carries another status
\* after a command response
C26_OfflineNodeRevived ==
    /\ ctl.op.name = "response"
    /\ ctl.op.response.node_id \in DOMAIN ctl.nodes
    /\ ctl.nodes[ctl.op.response.node_id].status \in {"calibrated", "error"}
    /\ ctl.nodes[ctl.op.response.node_id].last_seen + NODE_TIMEOUT_SECONDS
          < ctl.now

(***************************************************************************)
(* C27.  A node's registry status changes only through the defined events, *)
(* in every controller response handler (experiment_runner and             *)
(* test_command_w_discovery): a successful calibrate response from a       *)
(* registered node sets its status to calibrated, a response with status   *)
(* error sets it to error, and any other response leaves the status        *)
(* unchanged; the status is always one of online, offline, calibrated,     *)
(* error.                                                                  *)
(***************************************************************************)
\* a step of handle_command_response
ResponseStep ==
    /\ ctl'.events = ctl.events + 1
    /\ ctl'.op.name = "response"

\* a step of handle_command_response for a node the registry knows
KnownResponseStep ==
    /\ ResponseStep
    /\ ctl'.op.response.node_id \in DOMAIN ctl.nodes

\* the status the defined events give a node that sent response
StatusAfter(status, response) ==
    IF response.command = COMMAND_CALIBRATE /\ response.status = STATUS_SUCCESS
    THEN "calibrated"
    ELSE IF response.status = STATUS_ERROR THEN "error" ELSE status

C27_ResponseSetsStatus ==
    [][KnownResponseStep =>
         ctl'.nodes[ctl'.op.response.node_id].status
            = StatusAfter(ctl.nodes[ctl'.op.response.node_id].status,
                          ctl'.op.response)]_vars

\* what holds: test_command_w_discovery follows the defined events, while
\* experiment_runner knows the calibrated transition only
C27_ResponseSetsStatusPerScript ==
    [][KnownResponseStep =>
         ctl'.nodes[ctl'.op.response.node_id].status
            = IF ctl.script = "test_command_w_discovery"
              THEN StatusAfter(ctl.nodes[ctl'.op.response.node_id].status,
                               ctl'.op.response)
              ELSE IF ctl'.op.response.command = COMMAND_CALIBRATE
                      /\ ctl'.op.response.status = STATUS_SUCCESS
              THEN "calibrated"
              ELSE ctl.nodes[ctl'.op.response.node_id].status]_vars

\* what holds: the status is one of the four
C27_StatusValues ==
    \A k \in DOMAIN ctl.nodes :
       ctl.nodes[k].status \in {"online", "offline", "calibrated", "error"}

\* experiment_runner recorded an error response in the history of a node
\* whose status is not error
C27_ErrorIgnored ==
    /\ ctl.script = "experiment_runner"
    /\ ctl.op.name = "response"
    /\ ctl.op.response.status = STATUS_ERROR
    /\ ctl.op.response.node_id \in DOMAIN ctl.nodes
    /\ ctl.nodes[ctl.op.response.node_id].history
          = <<HistoryRecord(ctl.op.response)>>
    /\ ctl.nodes[ctl.op.response.node_id].status # "error"

\* test_command_w_discovery set a node to error
C27_ErrorRecorded ==
    /\ ctl.script = "test_command_w_discovery"
    /\ ctl.op.name = "response"
    /\ ctl.op.response.node_id \in DOMAIN ctl.nodes
    /\ ctl.nodes[ctl.op.response.node_id].status = "error"

(***************************************************************************)
(* C28.  Node lifecycle: a registry entry is created on the first          *)
(* discovery message or the first command response from a node id not yet  *)
(* in the registry (so a response from an unknown node both creates its    *)
(* entry and is recorded in its history), and no operation ever removes an *)
(* entry: the set of registered ids only grows.                            *)
(***************************************************************************)
\* the registry after the step holds node id, with response in its history
Recorded(id, response) ==
    /\ id \in DOMAIN ctl'.nodes
    /\ ctl'.nodes[id].history # <<>>
    /\ ctl'.nodes[id].history[Len(ctl'.nodes[id].history)]
          = HistoryRecord(response)

C28_FirstContactCreatesEntry ==
    [][/\ DiscoveryStep => ctl'.op.info.node_id \in DOMAIN ctl'.nodes
       /\ ResponseStep =>
             Recorded(ctl'.op.response.node_id, ctl'.op.response)
       /\ DOMAIN ctl.nodes \subseteq DOMAIN ctl'.nodes]_vars

\* what holds: discovery creates the entry, a response is recorded for a
\* node that has one and changes nothing in the registry otherwise, and no
\* entry is ever removed
C28_EntriesOnlyFromDiscovery ==
    [][/\ DiscoveryStep => ctl'.op.info.node_id \in DOMAIN ctl'.nodes
       /\ KnownResponseStep =>
             Recorded(ctl'.op.response.node_id, ctl'.op.response)
       /\ ResponseStep /\ ~KnownResponseStep => ctl'.nodes = ctl.nodes
       /\ DOMAIN ctl.nodes \subseteq DOMAIN ctl'.nodes
       /\ ~DiscoveryStep => DOMAIN ctl'.nodes = DOMAIN ctl.nodes]_vars

\* a response was handled and its sender has no entry, while another node
\* is registered
C28_UnknownResponseDropped ==
    /\ ctl.op.name = "response"
    /\ ctl.op.response.node_id \notin DOMAIN ctl.nodes
    /\ DOMAIN ctl.nodes # {}

(***************************************************************************)
(* C29.  wait_for_response(node_id, timeout) returns True exactly when the *)
(* response handler flags a response carrying that node_id while the wait  *)
(* is outstanding, and returns False exactly when the timeout elapses with *)
(* no such response; it always returns (never blocks past the timeout),    *)
(* and a response carrying a different node_id never satisfies it.         *)
(***************************************************************************)
\* wait_for_response has returned
Returned == ctl.main.pc = "idle" /\ ctl.main.result # "none"

C29_ReturnsTrueIffFlagged ==
    Returned => (ctl.main.result = "True" <=> ctl.main.flagged # <<>>)

\* what holds: True only after a response of that node was flagged during
\* the wait, False only once the timeout has elapsed, never more sleeps
\* than the timeout, and no flag means False
C29_ReturnsWithinTimeout ==
    /\ ctl.main.waited <= ctl.main.timeout
    /\ ctl.main.pc = "poll" => ctl.main.waited < ctl.main.timeout
    /\ Returned /\ ctl.main.result = "True" => ctl.main.flagged # <<>>
    /\ Returned /\ ctl.main.result = "False" =>
          ctl.main.waited = ctl.main.timeout
    /\ Returned /\ ctl.main.flagged = <<>> => ctl.main.result = "False"

\* what holds: a response carrying another node id changes neither the
\* flag of the wait nor the thread that waits
C29_OtherNodeIgnored ==
    [][/\ ResponseStep
       /\ Waiting(ctl, ctl.main.node)
       /\ ctl'.op.response.node_id # ctl.main.node
       => /\ ctl'.pending[ctl.main.node] = ctl.pending[ctl.main.node]
          /\ ctl'.main = ctl.main]_vars

\* the response was flagged during the wait, the flag is still set, and
\* wait_for_response has returned False
C29_LostResponse ==
    /\ Returned
    /\ ctl.main.result = "False"
    /\ ctl.main.flagged # <<>>
    /\ ctl.pending[ctl.main.node]

\* wait_for_response returned True
C29_Satisfied ==
    /\ Returned
    /\ ctl.main.result = "True"
    /\ ctl.main.waited > 0

(***************************************************************************)
(* C30.  The correlator matches responses to waits by node identity only:  *)
(* a response carrying node_id n that arrives while a wait on n is         *)
(* outstanding makes that wait return True whatever command name it        *)
(* echoes, so a stale response to a superseded (e.g. previously timed-out) *)
(* command satisfies the wait for a newer command.                         *)
(***************************************************************************)
C30_ResponseOfNodeSatisfiesWait ==
    Returned /\ ctl.main.flagged # <<>> => ctl.main.result = "True"

\* what holds: the handler sets the flag of the node for every command
\* name, and once the flag of an outstanding wait is set the wait returns
\* True at its next test of the flag
C30_MatchedByNodeOnly ==
    [][/\ (/\ ResponseStep
           /\ ctl.script = "experiment_runner"
           /\ ctl'.op.response.node_id \in DOMAIN ctl.pending)
          => ctl'.pending[ctl'.op.response.node_id]
       /\ (/\ ctl.main.pc = "poll"
           /\ ctl.pending[ctl.main.node]
           /\ ctl'.main.pc # "poll")
          => ctl'.main.pc = "idle" /\ ctl'.main.result = "True"]_vars

\* the wait for the second command returned True on a response that echoes
\* another command than the one waited for
C30_StaleResponseSatisfies ==
    /\ ctl.sent = MaxCommands
    /\ Returned
    /\ ctl.main.result = "True"
    /\ ctl.main.flagged # <<>>
    /\ \A i \in 1..Len(ctl.main.flagged) :
          ctl.main.flagged[i] # ctl.main.command

(***************************************************************************)
(* C31.  Pending-response table lifecycle: an entry for node_id exists     *)
(* only from the moment a command to that node is sent until its response  *)
(* arrives or its wait times out; after wait_for_response returns, with    *)
(* either result, the table holds no pending entry for that node_id.       *)
(***************************************************************************)
C31_NoEntryAfterReturn ==
    Returned => ctl.main.node \notin DOMAIN ctl.pending

\* what holds: an entry is created by wait_for_response, for the node it
\* waits for, and no step removes an entry; send_command creates none
C31_EntriesOnlyFromWait ==
    [][/\ DOMAIN ctl.pending \subseteq DOMAIN ctl'.pending
       /\ DOMAIN ctl'.pending # DOMAIN ctl.pending =>
             /\ ctl'.op.name = "wait"
             /\ DOMAIN ctl'.pending = DOMAIN ctl.pending \cup {ctl.main.node}
             /\ ~ctl'.pending[ctl.main.node]]_vars

\* both waits have returned, the first with a response and the second
\* without, and the table still holds the entries of both nodes
C31_EntriesLeftBehind ==
    /\ Returned
    /\ ctl.sent = MaxCommands
    /\ DOMAIN ctl.pending = NodeIds
    /\ \E n \in NodeIds : ctl.pending[n]
    /\ \E n \in NodeIds : ~ctl.pending[n]

(***************************************************************************)
(* C39.  No lost response: in the controller pattern send_command(n)       *)
(* followed by wait_for_response(n), a response from n that is delivered   *)
(* to the response handler at any point after the command was published    *)
(* and before the wait's timeout, including before wait_for_response has   *)
(* set the pending flag, makes wait_for_response return True.              *)
(***************************************************************************)
C39_EarlyResponseSatisfiesWait ==
    Returned /\ ctl.main.early => ctl.main.result = "True"

\* what holds: wait_for_response starts from a flag that is False, whatever
\* the handler did to the table since the command was sent
C39_WaitStartsUnflagged ==
    [][ctl'.op.name = "wait" /\ ctl.main.pc = "sent" =>
         /\ ~ctl'.pending[ctl.main.node]
         /\ ctl'.main.early = ctl.main.early]_vars

\* the only response was handled between send_command and
\* wait_for_response, for a node that had an entry in the table, and the
\* wait ran into its timeout
C39_LostEarlyResponse ==
    /\ Returned
    /\ ctl.sent = MaxCommands
    /\ ctl.main.early
    /\ ctl.main.flagged = <<>>
    /\ ctl.main.result = "False"
    /\ ctl.main.waited = ctl.main.timeout

(***************************************************************************)
(* C32.  A response timeout aborts the experiment sequence without         *)
(* stopping the controller: run_experiment sends its steps in the fixed    *)
(* order calibrate, validate, force test, wave test, sends step k+1 only   *)
(* after the wait for step k returned success, and after the first wait    *)
(* that times out sends no further command; the controller process keeps   *)
(* running and the abort is logged.                                        *)
(***************************************************************************)
\* a step that publishes a command
SendStep == ctl'.sent # ctl.sent

\* the k-th command sent is the k-th step, and it follows a wait that
\* returned True
InOrder ==
    /\ ctl'.sent = ctl.sent + 1
    /\ ctl'.run.step = ctl'.sent
    /\ ctl'.op = [name |-> "send", node_id |-> target_node,
                  command |-> Steps[ctl'.sent]]
    /\ ctl.sent > 0 => Returned /\ ctl.main.result = "True"

\* the wait of the current step has timed out
WaitTimedOut == Returned /\ ctl.main.result = "False"

\* run_experiment has returned on a timeout, with the abort of the step as
\* the last line of the log
Aborted ==
    /\ ctl.run.pc = "returned"
    /\ ctl.run.log[Len(ctl.run.log)]
          = <<"aborted", StepNames[ctl.run.step]>>

C32_TimeoutAbortsSequence ==
    [][/\ SendStep => InOrder
       /\ WaitTimedOut => ~SendStep
       /\ WaitTimedOut => ctl'.main = ctl.main
       /\ WaitTimedOut /\ ctl'.run # ctl.run => Aborted'
       /\ ctl.run.pc = "returned" =>
             ctl'.run = ctl.run /\ ctl'.main.pc = "idle"]_vars

\* the wave test was sent, its wait timed out and the abort was logged, and
\* the MQTT thread has handled a response since
C32_Witness ==
    /\ Aborted
    /\ WaitTimedOut
    /\ ctl.sent = Len(Steps)
    /\ ctl.op.name = "response"
    /\ ctl.events = MaxReplies

(***************************************************************************)
(* C33.  The registry is persisted in full on every mutation: after each   *)
(* operation that changes the in-memory registry completes                 *)
(* (add_or_update_node, an offline sweep that marks a node, and the        *)
(* response handler's update of a node's status or history), the persisted *)
(* snapshot equals the in-memory registry.                                 *)
(***************************************************************************)
C33_SnapshotIsRegistry == ctl.saved = SaveRegistry(ctl.nodes)

\* what holds: experiment_runner persists every mutation, and in
\* test_command_w_discovery the snapshot differs from the registry in the
\* histories only
C33_SnapshotButHistory ==
    /\ ctl.script = "experiment_runner" => ctl.saved = SaveRegistry(ctl.nodes)
    /\ DOMAIN ctl.saved = DOMAIN ctl.nodes
    /\ \A k \in DOMAIN ctl.nodes :
          [ctl.saved[k] EXCEPT !.history = ctl.nodes[k].history]
             = ToDict(ctl.nodes[k])

\* what holds: discovery and the sweep write the whole registry
C33_UpsertAndSweepPersist ==
    [][DiscoveryStep \/ SweepStep =>
         ctl'.saved = SaveRegistry(ctl'.nodes)]_vars

\* test_command_w_discovery recorded a response in the history of a node
\* and the file does not have it
C33_HistoryNotPersisted ==
    /\ ctl.script = "test_command_w_discovery"
    /\ ctl.op.name = "response"
    /\ ctl.op.response.node_id \in DOMAIN ctl.nodes
    /\ ctl.nodes[ctl.op.response.node_id].history
          = <<HistoryRecord(ctl.op.response)>>
    /\ ctl.saved[ctl.op.response.node_id].history = <<>>

\* a registry with a swept node and a recorded response is on file
C33_Persisted ==
    /\ ctl.script = "experiment_runner"
    /\ ctl.op.name = "response"
    /\ ctl.saved = SaveRegistry(ctl.nodes)
    /\ \E k \in DOMAIN ctl.saved :
          ctl.saved[k].status = "calibrated" /\ ctl.saved[k].history # <<>>

(***************************************************************************)
(* C40.  Registry persistence round trip: saving the registry and loading  *)
(* it into a fresh NodeRegistry reproduces, for every node id, the same    *)
(* address, role, capabilities, last_seen, status and command history, so  *)
(* a further save after the reload writes the same snapshot.               *)
(***************************************************************************)
\* a new controller process has just loaded the file
Restarted == ctl.op.name = "restart"

C40_ReloadReproducesSnapshot ==
    Restarted => SaveRegistry(ctl.nodes) = ctl.saved

\* what holds: the reload reproduces everything but the history, which is
\* empty for every node
C40_ReloadDropsHistory ==
    Restarted =>
       /\ DOMAIN ctl.nodes = DOMAIN ctl.saved
       /\ \A k \in DOMAIN ctl.nodes :
             /\ ctl.nodes[k].history = <<>>
             /\ ToDict(ctl.nodes[k]) = [ctl.saved[k] EXCEPT !.history = <<>>]

\* the file holds a command history for a node that is offline, the
\* reloaded registry has the node, offline, with none
C40_HistoryLost ==
    /\ Restarted
    /\ \E k \in DOMAIN ctl.saved :
          /\ ctl.saved[k].history # <<>>
          /\ ctl.saved[k].status = "offline"
          /\ ctl.nodes[k].status = "offline"
          /\ ctl.nodes[k].last_seen = ctl.saved[k].last_seen
          /\ ctl.nodes[k].history = <<>>

(***************************************************************************)
(* C34.  Registry writes are exclusive: the offline sweeper thread and the *)
(* discovery/response handlers never operate on the registry map at the    *)
(* same time, so no interleaving of check_for_offline_nodes with           *)
(* add_or_update_node leaves a node marked offline although its last_seen  *)
(* was refreshed within the timeout, and no handler inserts an entry while *)
(* a sweep is iterating the map.                                           *)
(***************************************************************************)
\* the sweeper is between the creation of its iterator and its save
Sweeping == ctl.sweep.pc \in {"iterating", "marking"}

\* node k is offline although it was seen within the timeout
OfflineThoughSeen(k) ==
    /\ ctl.nodes[k].status = "offline"
    /\ ctl.now - ctl.nodes[k].last_seen <= NODE_TIMEOUT_SECONDS

C34_ExclusiveRegistryWrites ==
    [][/\ Sweeping /\ Sweeping' => ctl'.events = ctl.events
       /\ \A k \in DOMAIN ctl'.nodes : ~OfflineThoughSeen(k)'
       /\ ctl'.sweep.pc # "raised"]_vars

\* what holds: the sweep marks a node only after its test of last_seen and
\* status succeeded for that node, and changes nothing but that status
C34_MarkFollowsTest ==
    [][ctl'.op.name = "sweep mark" =>
         /\ ctl.sweep.pc = "marking"
         /\ ctl'.nodes = [ctl.nodes EXCEPT ![ctl.sweep.node].status = "offline"]
         /\ ctl.sweep.current_time <= ctl.now]_vars

\* what holds in SpecCtl, where no handler runs inside a sweep: no node is
\* offline that was seen within the timeout
C34_UninterruptedSweepIsSound ==
    \A k \in DOMAIN ctl.nodes : ~OfflineThoughSeen(k)

\* a node is offline with last_seen at the current time: the handler
\* refreshed it between the test and the mark of the sweep
C34_OfflineThoughFresh ==
    /\ ctl.op.name = "sweep mark"
    /\ ctl.nodes[ctl.sweep.node].status = "offline"
    /\ ctl.nodes[ctl.sweep.node].last_seen = ctl.now

\* the handler inserted a node while the sweep was iterating and the
\* monitor thread has ended with RuntimeError
C34_SweeperRaised ==
    /\ ctl.sweep.pc = "raised"
    /\ Cardinality(DOMAIN ctl.nodes) = ctl.sweep.used + 1

(***************************************************************************)
(* C35.  State/history consistency: in every reachable state of            *)
(* ExperimentManager between operations, the last entry of the state       *)
(* history is the name of the current state, and every accepted or forced  *)
(* transition appends exactly one entry (a rejected request appends only   *)
(* ERROR, never the rejected target).                                      *)
(***************************************************************************)
IsStateChange(entry) == entry[1] = "state"

\* the state changes of the last call, in order
StateChanges == SelectSeq(mgr.trace, IsStateChange)

\* the history is the one before the call followed by one entry for each
\* state change of the call, each leaving the state the one before entered
OneEntryPerChange ==
    /\ Len(mgr.history) = Len(prev.history) + Len(StateChanges)
    /\ \A i \in 1..Len(prev.history) : mgr.history[i] = prev.history[i]
    /\ \A j \in 1..Len(StateChanges) :
          /\ mgr.history[Len(prev.history) + j] = StateChanges[j][3]
          /\ mgr.history[Len(prev.history) + j - 1] = StateChanges[j][2]

\* each entry follows the one before by a transition of the table
OnlyValidEntries ==
    \A i \in 1..(Len(mgr.history) - 1) :
       IsValidTransition(mgr.history[i], mgr.history[i + 1])

C35_HistoryFollowsState ==
    /\ mgr.history[Len(mgr.history)] = mgr.state
    /\ OneEntryPerChange
    /\ OnlyValidEntries
    /\ last.op = "transition" /\ ~IsValidTransition(prev.state, last.target)
          => mgr.history = IF mgr.exc = "none"
                           THEN Append(prev.history, "ERROR")
                           ELSE prev.history

\* RUNNING was requested in IDLE: the history gained ERROR and nothing else
C35_Witness ==
    /\ last.op = "transition"
    /\ last.target = "RUNNING"
    /\ prev.state = "IDLE"
    /\ mgr.history = Append(prev.history, "ERROR")
    /\ Len(mgr.history) > 3

\* one command appended two entries, one for each transition it made
C35_TwoChanges ==
    /\ last.op = "command"
    /\ Len(StateChanges) = 2
    /\ mgr.exc = "none"

(***************************************************************************)
(* C36.  ERROR is left only through Reset: while the machine is in ERROR,  *)
(* every recognized command other than Reset (Calibrate, Test, Run,        *)
(* TestValid, RunValid, Abort) leaves it in ERROR and invokes no           *)
(* calibrate, test or run hardware hook.                                   *)
(***************************************************************************)
\* the name of the command of the last call, when it had one
LastCmdName ==
    IF last.op = "command" /\ last.input.type = "dict"
       /\ Has(last.input.val, "cmd")
    THEN last.input.val.cmd ELSE "none"

\* the hooks that drive the hardware for a calibration, a test or a run
WorkHooks ==
    {<<"hook", "handle_calibrate">>, <<"hook", "handle_test">>,
     <<"hook", "handle_run">>, <<"hook", "configure_hardware">>}

C36_ErrorLeftOnlyByReset ==
    /\ prev.state = "ERROR"
    /\ LastCmdName \in VALID_COMMANDS \ {"Reset"}
    => /\ mgr.state = "ERROR"
       /\ mgr.exc = "none"
       /\ \A i \in 1..Len(mgr.trace) : mgr.trace[i] \notin WorkHooks

\* a Run command was handled in ERROR: still ERROR, one more ERROR entry
C36_Witness ==
    /\ prev.state = "ERROR"
    /\ LastCmdName = "Run"
    /\ mgr.state = "ERROR"
    /\ mgr.history = Append(prev.history, "ERROR")

\* Reset was handled in ERROR and the machine is in IDLE
C36_ResetLeaves ==
    /\ prev.state = "ERROR"
    /\ LastCmdName = "Reset"
    /\ mgr.state = "IDLE"

(***************************************************************************)
(* C37.  Calibration sessions are independent: whenever the machine is in  *)
(* a state other than CALIBRATING the calibration sample buffer is empty,  *)
(* so samples submitted before an Abort, a Reset or an error are never     *)
(* included in the mean computed by a later calibration.                   *)
(***************************************************************************)
C37_BufferEmptyOutsideCalibrating ==
    mgr.state # "CALIBRATING" => mgr.height_log = <<>>

\* what holds: a Calibrate{finished} command leaves the buffer empty, and
\* the buffer changes only in a call that runs handle_calibrate
C37_OnlyFinishedClears ==
    /\ cal.phase = "finished" /\ mgr.has_sensor /\ cal.from = "IDLE"
          => mgr.height_log = <<>>
    /\ mgr.height_log # prev.height_log =>
          \E i \in 1..Len(mgr.trace) :
             mgr.trace[i] = <<"hook", "handle_calibrate">>

\* a Reset left CALIBRATING with a sample in the buffer
C37_SampleSurvivesReset ==
    /\ LastCmdName = "Reset"
    /\ prev.state = "CALIBRATING"
    /\ mgr.state = "IDLE"
    /\ mgr.height_log # <<>>

\* a calibration with no step of its own moved the bias table by the
\* sample of an abandoned one
C37_StaleSampleInMean ==
    /\ cal.phase = "finished"
    /\ cal.hs = <<>>
    /\ cal.buf0 # <<>>
    /\ mgr.state = "IDLE"
    /\ mgr.bias_table # cal.bias0

(***************************************************************************)
(* C38.  At most one heartbeat publisher thread is alive per CommClient at *)
(* any time, under every sequence and interleaving of connect(),           *)
(* disconnect(), broker-initiated disconnection and reconnection, so no    *)
(* heartbeat interval ever carries two heartbeats from the same session.   *)
(***************************************************************************)
\* the heartbeat threads that have not left heartbeat_loop
AliveTimers == {h \in 1..Len(comm.timers) : comm.timers[h]}

C38_OneHeartbeatThread == Cardinality(AliveTimers) <= 1

\* what holds: the thread the object refers to is the last one started,
\* every thread but that one was started for a session the broker dropped,
\* and disconnect() on a connected session stops the thread it refers to
C38_OnlyLatestTracked ==
    /\ comm.heartbeat_timer \in {0, Len(comm.timers)}
    /\ Cardinality(AliveTimers) <= 1 + comm.drops
    /\ comm.op.name = "disconnect" /\ comm.op.found =>
          Len(comm.timers) \notin AliveTimers

\* two heartbeat threads are alive on a connected session, and the one the
\* object no longer refers to has just published a heartbeat
C38_TwoHeartbeatThreads ==
    /\ Cardinality(AliveTimers) = 2
    /\ comm.connected
    /\ comm.op.name = "tick"
    /\ comm.op.timer # comm.heartbeat_timer
    /\ comm.op.sent = 1

====
